---- MODULE Spec2Model ----
(***************************************************************************)
(* Notenverwaltungssystem (school-login): the request pipeline of          *)
(* server.js, the login rate limiter, the session store, the role gate     *)
(* and the teacher's add-grade upload route, as a state machine.           *)
(*                                                                         *)
(* A request is a process: it arrives (session load and the synchronous    *)
(* middleware chain up to the first asynchronous call of its handler run   *)
(* as one step, as they do on the single-threaded event loop), and every   *)
(* callback of an asynchronous call (store query, session store            *)
(* operation, file operation) is a later step, so requests interleave      *)
(* where the code waits.  That is the build with a connection pool         *)
(* (db.js pool.query, PgSessionStore); the build with the in-memory        *)
(* database and InMemorySessionStore calls every callback at once, and     *)
(* its behaviours are those in which a request's steps follow each other   *)
(* without another request between them.                                   *)
(*                                                                         *)
(* The store is PostgreSQL or, with USE_FAKE_DB, createFakeDb's in-memory  *)
(* tables (isFakeDb); the two answer some statements differently, and the  *)
(* operators of the store say where.                                       *)
(*                                                                         *)
(* The specifications share the actions:                                   *)
(*   Spec          sessions, must-change-password gate, role routers,      *)
(*                 logout (the clock does not advance)                     *)
(*   SpecLogin     POST /login and the rate limiter under a ticking clock  *)
(*   SpecAccounts  the credential and status checks of POST /login         *)
(*   SpecUpload    POST /teacher/add-grade/:classId/:studentId             *)
(*   SpecStore     the routes that delete classes, students, grades,       *)
(*                 templates and special assessments                       *)
(*   SpecAttach    grades with an attachment or a link                     *)
(*   SpecValues    the values of grades and special assessments            *)
(*   SpecRead      the notifications of a student                          *)
(*   SpecErrors    failures of the store                                   *)
(*   SpecAverages  the averages of the pages of grades                     *)
(*   SpecCsv       the fields of the CSV export of grades                  *)
(*   SpecPdf       the PDF export of grades                                *)
(*   SpecStatus    locked and deleted accounts with open sessions          *)
(*   SpecPasswords the admin's password reset and the forced change        *)
(*   SpecClient    the averages the student dashboard computes             *)
(***************************************************************************)
EXTENDS Integers, Sequences, FiniteSets, TLC

\* ------------------------------------------------------------------ bounds
\* number of session identifiers the session middleware can hand out
MaxSid == 2
\* last instant of the clock (SpecLogin)
MaxTime == 4
\* number of files multer can write in one behaviour (SpecUpload)
MaxFile == 2
\* number of grade rows that can be inserted in one behaviour (SpecUpload)
MaxGrade == 2
\* number of grade rows of a page of grades (SpecAverages)
MaxRows == 2
\* number of characters of a field of the CSV export (SpecCsv)
MaxField == 3
\* number of grades of the student dashboard's refresh (SpecClient)
MaxClientRows == 3
\* number of lines of the PDF export, and of pieces of a line (SpecPdf)
MaxLines == 2
MaxPieces == 2

\* ------------------------------------------------------- program constants
\* server.js:48, LOGIN_RATE_LIMIT_WINDOW_MS, in units of the model's clock
LOGIN_RATE_WINDOW_MS == 2
\* server.js:49, LOGIN_RATE_LIMIT_MAX (default)
LOGIN_RATE_MAX == 5
\* utils/password.js:1 (default)
MIN_PASSWORD_LENGTH == 10

\* the concurrent request processes
Req == {"r1", "r2"}

Sid == 1..MaxSid

\* ------------------------------------------------------------- passwords
\* A password is a sequence of characters; "undefined" is a missing field.
Undefined == <<"undefined">>
Letters == {"a", "b"}
Numbers == {"1", "2"}
Repeat(c, n) == [i \in 1..n |-> c]
\* 10 characters, letters and a digit: accepted by the policy
PwInit == Repeat("a", 9) \o <<"1">>
\* 11 characters, letters and digits: accepted
PwGood == Repeat("b", 9) \o <<"1", "2">>
\* 9 characters: too short
PwShort == Repeat("a", 8) \o <<"1">>
\* 10 letters, no digit
PwLetters == Repeat("a", 10)
\* 10 digits, no letter
PwNumbers == Repeat("1", 10)

isString(p) == p # Undefined

\* utils/password.js getPasswordValidationError: "" stands for null
getPasswordValidationError_NoDigitCheck(password) ==
  IF ~isString(password) \/ Len(password) < MIN_PASSWORD_LENGTH
  THEN "Passwort muss mindestens MIN_PASSWORD_LENGTH Zeichen lang sein."
  ELSE IF ~(\E i \in 1..Len(password) : password[i] \in Letters)
       THEN "Passwort muss mindestens einen Buchstaben und eine Zahl enthalten."
       ELSE ""

getPasswordValidationError(password) ==
  IF ~isString(password) \/ Len(password) < MIN_PASSWORD_LENGTH
  THEN "Passwort muss mindestens MIN_PASSWORD_LENGTH Zeichen lang sein."
  ELSE LET hasLetter == \E i \in 1..Len(password) : password[i] \in Letters
           hasNumber == \E i \in 1..Len(password) : password[i] \in Numbers
       IN  IF ~hasLetter \/ ~hasNumber
           THEN "Passwort muss mindestens einen Buchstaben und eine Zahl enthalten."
           ELSE ""

\* db.js hashPassword / verifyPassword: the stored value names the algorithm
\* and is derived from the password (the random salt does not change what
\* verifyPassword accepts)
hashPassword(password) == [alg |-> "scrypt", pw |-> password]

verifyPassword(stored, password) ==
  stored.alg = "scrypt" /\ isString(password) /\ stored.pw = password

\* ------------------------------------------------------------------ users
UserId == {1, 2, 3, 4}
NoUser == [id |-> 0, email |-> "", role |-> "", status |-> "",
           must_change_password |-> FALSE]

\* server.js:297-303, the payload stored in the session at login
SessionUser(row) ==
  [id |-> row.id, email |-> row.email, role |-> row.role,
   status |-> row.status, must_change_password |-> row.must_change_password]

\* server.js getRedirectForRole
getRedirectForRole(role) ==
  CASE role = "admin" -> "/admin"
    [] role = "teacher" -> "/teacher/classes"
    [] role = "student" -> "/student"
    [] OTHER -> "/"

\* ------------------------------------------------------ login rate limiter
\* String(email).toLowerCase() on the e-mail addresses of the model
toLowerCase(email) ==
  CASE email = "A@x" -> "a@x"
    [] email = "S@x" -> "s@x"
    [] OTHER -> email

\* the e-mail fields of the model's requests; "" is a missing field
Emails == {"", "a@x", "A@x", "t@x", "s@x"}
\* server.js buildLoginKey: one client address, the lower-cased e-mail
buildLoginKey(email) == toLowerCase(email)
LoginKey == {buildLoginKey(e) : e \in Emails}

\* no entry in the loginAttempts map
NoEntry == [count |-> 0, firstAttemptAt |-> 0, lockedUntil |-> 0]

\* server.js isLoginRateLimited: the value it returns ...
isLoginRateLimited(attempts, key, t) ==
  LET entry == attempts[key] IN
  IF entry = NoEntry THEN FALSE
  ELSE IF entry.lockedUntil # 0 /\ entry.lockedUntil > t THEN TRUE
  ELSE IF t - entry.firstAttemptAt > LOGIN_RATE_WINDOW_MS THEN FALSE
  ELSE entry.count >= LOGIN_RATE_MAX

\* ... and the map it leaves (an expired, unlocked entry is deleted)
afterRateCheck(attempts, key, t) ==
  LET entry == attempts[key] IN
  IF entry = NoEntry THEN attempts
  ELSE IF entry.lockedUntil # 0 /\ entry.lockedUntil > t THEN attempts
  ELSE IF t - entry.firstAttemptAt > LOGIN_RATE_WINDOW_MS
       THEN [attempts EXCEPT ![key] = NoEntry]
       ELSE attempts

\* server.js recordLoginFailure
recordLoginFailure(attempts, key, t) ==
  LET entry == attempts[key] IN
  IF entry = NoEntry \/ t - entry.firstAttemptAt > LOGIN_RATE_WINDOW_MS
  THEN [attempts EXCEPT ![key] =
          [count |-> 1, firstAttemptAt |-> t, lockedUntil |-> 0]]
  ELSE [attempts EXCEPT ![key] =
          [count |-> entry.count + 1,
           firstAttemptAt |-> entry.firstAttemptAt,
           lockedUntil |-> IF entry.count + 1 >= LOGIN_RATE_MAX
                           THEN t + LOGIN_RATE_WINDOW_MS
                           ELSE entry.lockedUntil]]

\* server.js resetLoginAttempts
resetLoginAttempts_Keeps(attempts, key) == attempts

resetLoginAttempts(attempts, key) == [attempts EXCEPT ![key] = NoEntry]


\* ------------------------------------------------------------------ state
VARIABLES
  users,              \* table users: id -> row
  sessions,           \* InMemorySessionStore.sessions: sid -> entry
  nextSid,            \* the next session identifier the middleware generates
  loginAttempts,      \* server.js loginAttempts: key -> entry
  now,                \* Date.now()
  reqs,               \* the request processes
  response,           \* the last response sent
  classes,            \* table classes
  students,           \* table students
  grade_templates,    \* table grade_templates
  grades,             \* table grades
  grade_notifications,\* table grade_notifications
  special_assessments,\* table special_assessments
  serial,             \* the next id of each table that rows are inserted into
  isFakeDb,           \* db.js isFakeDb: the store is createFakeDb()'s, not
                      \* PostgreSQL
  INITIAL_PASSWORD,   \* student-dashboard.js:669 process.env.INITIAL_PASSWORD
                      \* || null (Undefined: not configured)
  report,             \* the averages of the last page of grades rendered
  files,              \* the files in GRADE_ATTACHMENT_DIR
  nextFile,           \* the next file name multer generates
  lockout,            \* history: per key, the failures recorded in the open
                      \* rate window and the end of the lockout they began
  sinceSuccess,       \* history: per key, failures recorded since the last
                      \* successful login (-1: no successful login yet)
  loggedOut           \* history: the session identifiers whose logout completed

tableVars == <<classes, students, grade_templates, grades,
               grade_notifications, files, nextFile>>
vars == <<users, sessions, nextSid, loginAttempts, now, reqs, response,
          classes, students, grade_templates, grades, grade_notifications,
          special_assessments, serial, isFakeDb, INITIAL_PASSWORD, report,
          files, nextFile, lockout, sinceSuccess, loggedOut>>

\* ------------------------------------------------------------- the request
\* A path is its sequence of segments: "/teacher/add-grade/1/2" is
\* <<"teacher", "add-grade", "1", "2">>.
DigitStrings == {"1", "2", "3"}
PathLogin == <<"login">>
PathForce == <<"force-password-change">>
PathLogout == <<"logout">>
PathRoot == <<>>

\* the fields of a request that no route of the model reads
BlankInput ==
  [method |-> "GET", path |-> PathRoot, cookie |-> 0, csrfOk |-> FALSE,
   multipart |-> FALSE, email |-> "", password |-> Undefined,
   newPassword |-> Undefined, upload |-> "none", grade_template_id |-> "",
   grade |-> "", external_link |-> "", student_id |-> "", type |-> "",
   name |-> "", weight |-> "", role |-> "", status |-> "", useInitial |-> ""]

Idle ==
  [pc |-> "idle", in |-> BlankInput, sid |-> 0, user |-> NoUser,
   before |-> NoUser, loaded |-> NoUser, dirty |-> FALSE, row |-> NoUser, locked |-> FALSE,
   file |-> 0, uploadErr |-> "", student |-> 0]

NoResponse ==
  [method |-> "", path |-> PathRoot, status |-> 0, msg |-> "", loc |-> "",
   handler |-> "", before |-> NoUser, after |-> NoUser, locked |-> FALSE,
   multipart |-> FALSE]

NoSession == [present |-> FALSE, user |-> NoUser]

\* ------------------------------------------------------- session middleware
\* express-session as configured in server.js:123-137 on
\* InMemorySessionStore: the cookie's session is loaded from the store
\* (sessionStore.js get); an unknown or missing cookie gets a new session
\* with a fresh identifier.
sessionFound(in) == in.cookie # 0 /\ sessions[in.cookie].present

\* A CSRF token is derived from the secret kept in the session, so only a
\* request that presents an existing session can carry a valid one.
\* (The processes are interchangeable: a request takes "r2" only while "r1"
\* is busy.)
CanArrive(r, in) ==
  /\ reqs[r].pc = "idle"
  /\ r = "r1" \/ reqs["r1"].pc # "idle"
  /\ in.cookie < nextSid
  /\ sessionFound(in) \/ nextSid <= MaxSid
  /\ in.csrfOk => sessionFound(in)

\* the request record after the session middleware; dirty: a new session
\* that csurf (secret) or detectDevice (isMobile) has written to
Loaded(in, dirty) ==
  LET found == sessionFound(in)
      u == IF found THEN sessions[in.cookie].user ELSE NoUser
  IN  [Idle EXCEPT !.pc = "run", !.in = in,
                   !.sid = IF found THEN in.cookie ELSE nextSid,
                   !.user = u, !.before = u, !.loaded = u,
                   !.dirty = ~found /\ dirty]

sidAfterLoad(in) == IF sessionFound(in) THEN nextSid ELSE nextSid + 1

\* res.end of express-session (resave: false, saveUninitialized: false): a
\* session the request destroyed is not saved; a new session is saved when
\* it was written to; a loaded session is saved (sessionStore.js set) when
\* its content changed, and only touched otherwise.
endSave(s, q) ==
  IF q.sid = 0 THEN s
  ELSE IF q.dirty \/ q.user # q.loaded
       THEN [s EXCEPT ![q.sid] = [present |-> TRUE, user |-> q.user]]
       ELSE s

\* the response is sent and the request ends
Respond(s, r, q, status, msg, loc, handler) ==
  /\ sessions' = endSave(s, q)
  /\ reqs' = [reqs EXCEPT ![r] = Idle]
  /\ response' =
       [method |-> q.in.method, path |-> q.in.path, status |-> status,
        msg |-> msg, loc |-> loc, handler |-> handler, before |-> q.before,
        after |-> IF q.sid = 0 THEN NoUser ELSE q.user, locked |-> q.locked,
        multipart |-> q.in.multipart]

\* ------------------------------------------------------------- middleware
\* server.js:140 multipartAllowList: /^\/teacher\/add-grade\/\d+\/\d+$/
multipartAllowed_AnyTeacherPath(path) ==
  Len(path) >= 1 /\ path[1] = "teacher"

multipartAllowed(path) ==
  /\ Len(path) = 4
  /\ path[1] = "teacher"
  /\ path[2] = "add-grade"
  /\ path[3] \in DigitStrings
  /\ path[4] \in DigitStrings

\* server.js:147-162 multipart / CSRF middleware and server.js:184-191
\* must-change-password gate, in the order they are mounted; detectDevice
\* and the header middleware between them always call next()
Front_NoGate(in, user) ==
  IF in.method # "GET" /\ in.multipart /\ ~multipartAllowed(in.path)
  THEN "415"
  ELSE IF ~in.multipart /\ in.method # "GET" /\ ~in.csrfOk
       THEN "csrf"
       ELSE "pass"

Front(in, user) ==
  IF in.method # "GET" /\ in.multipart /\ ~multipartAllowed(in.path)
  THEN "415"
  ELSE IF ~in.multipart /\ in.method # "GET" /\ ~in.csrfOk
       THEN "csrf"
       ELSE IF user = NoUser \/ ~user.must_change_password
            THEN "pass"
            ELSE IF in.path = PathForce \/ in.path = PathLogout
                 THEN "pass"
                 ELSE "gate"

\* middleware/auth.js requireAuth
requireAuth(user) ==
  IF user = NoUser THEN "login"
  ELSE IF user.status # "active" THEN "403"
  ELSE "next"

\* middleware/auth.js requireRole
requireRole_AnyRole(user, role) == user # NoUser

requireRole(user, role) == user # NoUser /\ user.role = role

\* server.js:325-327 router mounts; each router starts with
\* router.use(requireAuth, requireRole(<role>))
RouterRoles == {"admin", "teacher", "student"}
isRouterPath(path) == Len(path) >= 1 /\ path[1] \in RouterRoles

routerGate(in, user) ==
  IF requireAuth(user) # "next" THEN requireAuth(user)
  ELSE IF ~requireRole(user, in.path[1]) THEN "role"
  ELSE "next"

\* server.js:337-361 error-handling middleware
\* server.js:30-46 isDbConnectionError.  An error of the model is named by
\* its code, or by its message when it has no code.
ConnectionErrors ==
  {"ECONNRESET", "ETIMEDOUT", "ENETUNREACH", "ECONNREFUSED",
   "Connection terminated unexpectedly"}

isDbConnectionError(err) == err \in ConnectionErrors
DbOutcome == {"ok", "ECONNRESET", "other"}
\* db.run / db.get / db.all answer with a connection error or another
\* failure of the server only where there is a server (db.js:786-829);
\* createFakeDb calls back without one
storeAnswers(out) == out = "ok" \/ ~isFakeDb

errorStatus(err) ==
  IF err = "EBADCSRFTOKEN" THEN 403
  ELSE IF isDbConnectionError(err) THEN 503 ELSE 500
errorMessage(err) ==
  IF err = "EBADCSRFTOKEN"
  THEN "Ungueltiges oder abgelaufenes Sicherheits-Token. Bitte Seite neu laden und erneut versuchen."
  ELSE IF isDbConnectionError(err)
       THEN "Datenbank nicht erreichbar. Bitte spaeter erneut versuchen."
       ELSE "Interner Serverfehler."


\* -------------------------------------------------------- history variables
\* A rate window of a key opens at the first failure recorded while no window
\* of the key is open and lasts LOGIN_RATE_WINDOW_MS; the LOGIN_RATE_MAX-th
\* failure recorded in it begins a lockout of LOGIN_RATE_WINDOW_MS; a
\* successful login ends both.
NoWindow == [failures |-> 0, openedAt |-> 0, until |-> 0]

noteFailure(key, t) ==
  LET w == lockout[key]
      open == w.failures > 0 /\ t - w.openedAt <= LOGIN_RATE_WINDOW_MS
      n == IF open THEN w.failures + 1 ELSE 1
      kept == IF t < w.until THEN w.until ELSE 0
  IN  /\ lockout' = [lockout EXCEPT ![key] =
           [failures |-> IF n > LOGIN_RATE_MAX THEN LOGIN_RATE_MAX ELSE n,
            openedAt |-> IF open THEN w.openedAt ELSE t,
            until |-> IF n >= LOGIN_RATE_MAX
                      THEN t + LOGIN_RATE_WINDOW_MS ELSE kept]]
      /\ sinceSuccess' = [sinceSuccess EXCEPT ![key] =
           IF @ < 0 \/ @ >= LOGIN_RATE_MAX THEN @ ELSE @ + 1]

noteSuccess(key) ==
  /\ lockout' = [lockout EXCEPT ![key] = NoWindow]
  /\ sinceSuccess' = [sinceSuccess EXCEPT ![key] = 0]

\* ------------------------------------------------------------ the messages
MsgRateLimited == "Zu viele Versuche. Bitte spaeter erneut versuchen."
MsgLoginFailed == "Login fehlgeschlagen."
MsgMissing == "Bitte E-Mail und Passwort eingeben."
MsgDbError == "DB-Fehler."
MsgMultipart == "Multipart ist fuer diese Route nicht erlaubt."
MsgLocked == "Account gesperrt."
MsgDenied == "Zugriff verweigert."
MsgNotFound == "Seite nicht gefunden."

\* ------------------------------------------------- requests that end early
\* server.js:147-162 and 184-191: the request is answered by the multipart
\* check (415), by the CSRF check (error handler, 403) or by the
\* must-change-password gate (redirect)
ArriveRejected(r, in) ==
  /\ UNCHANGED <<report, isFakeDb, INITIAL_PASSWORD, special_assessments, serial>>
  /\ CanArrive(r, in)
  /\ LET front == Front(in, Loaded(in, TRUE).user)
         q == Loaded(in, front # "415")
     IN  /\ front # "pass"
         /\ nextSid' = sidAfterLoad(in)
         /\ CASE front = "415" ->
                   Respond(sessions, r, q, 415, MsgMultipart, "", "")
              [] front = "csrf" ->
                   Respond(sessions, r, q, errorStatus("EBADCSRFTOKEN"),
                           errorMessage("EBADCSRFTOKEN"), "", "")
              [] OTHER ->
                   Respond(sessions, r, q, 302, "", "/force-password-change", "")
  /\ UNCHANGED <<users, loginAttempts, now, lockout, sinceSuccess, loggedOut>>
  /\ UNCHANGED tableVars

\* middleware/auth.js with the router mounts: a request to a role router
\* that requireAuth or requireRole answers
RouterRejected(r, in) ==
  /\ UNCHANGED <<report, isFakeDb, INITIAL_PASSWORD, special_assessments, serial>>
  /\ CanArrive(r, in)
  /\ isRouterPath(in.path)
  /\ LET q == Loaded(in, TRUE)
         gate == routerGate(in, q.user)
     IN  /\ Front(in, q.user) = "pass"
         /\ gate # "next"
         /\ nextSid' = sidAfterLoad(in)
         /\ CASE gate = "login" -> Respond(sessions, r, q, 302, "", "/login", "")
              [] gate = "403" -> Respond(sessions, r, q, 403, MsgLocked, "", "")
              [] OTHER -> Respond(sessions, r, q, 403, MsgDenied, "", "")
  /\ UNCHANGED <<users, loginAttempts, now, lockout, sinceSuccess, loggedOut>>
  /\ UNCHANGED tableVars

\* The pages: GET / (server.js:194), GET /login (200), GET
\* /force-password-change (206), the read-only pages of the role routers
\* (GET /admin, GET /teacher/classes, GET /student/grades) and the 404
\* fallback (329).  handler names the route handler that ran.
\* the POST routes of the model: server.js:217, 243, 320, the admin router's
\* /users/:id/delete and the teacher router's /add-grade/:classId/:studentId
isDeleteUserPath(path) ==
  /\ Len(path) = 4
  /\ path[1] = "admin" /\ path[2] = "users" /\ path[4] = "delete"

\* router.post("/users/:id") of the admin router
isUpdateUserPath(path) ==
  /\ Len(path) = 3
  /\ path[1] = "admin" /\ path[2] = "users" /\ path[3] \in DigitStrings

\* router.post("/users/:id/reset") of the admin router
isResetPath(path) ==
  /\ Len(path) = 4
  /\ path[1] = "admin" /\ path[2] = "users" /\ path[4] = "reset"

\* router.post("/add-grade/:classId/:studentId") of the teacher router
isAddGradePath(path) ==
  /\ Len(path) = 4
  /\ path[1] = "teacher" /\ path[2] = "add-grade"

\* The routes that write to the tables of classes and grades: of the
\* teacher router (part_001) /delete-class/:id, /special-assessments/:classId
\* and /delete-student, /delete-grade, /delete-grade-attachment,
\* /delete-template, /delete-special-assessment with two parameters; of the
\* admin router /classes/:id/delete and
\* /classes/:classId/students/:studentId/delete; of the student router
\* /notifications/:id/read.  "" is no such route.
routeOf(path) ==
  IF Len(path) = 3 /\ path[1] = "teacher"
       /\ path[2] \in {"delete-class", "special-assessments"}
  THEN path[2]
  ELSE IF Len(path) = 4 /\ path[1] = "teacher"
            /\ path[2] \in {"delete-student", "delete-grade",
                             "delete-grade-attachment", "delete-template",
                             "delete-special-assessment"}
  THEN path[2]
  ELSE IF Len(path) = 4 /\ path[1] = "admin" /\ path[2] = "classes"
            /\ path[4] = "delete"
  THEN "admin-delete-class"
  ELSE IF Len(path) = 6 /\ path[1] = "admin" /\ path[2] = "classes"
            /\ path[4] = "students" /\ path[6] = "delete"
  THEN "admin-delete-student"
  ELSE IF Len(path) = 4 /\ path[1] = "student" /\ path[2] = "notifications"
            /\ path[4] = "read"
  THEN "mark-read"
  ELSE ""

isPostRoute(path) ==
  \/ path \in {PathLogin, PathForce, PathLogout}
  \/ isDeleteUserPath(path)
  \/ isUpdateUserPath(path)
  \/ isResetPath(path)
  \/ isAddGradePath(path)
  \/ routeOf(path) # ""

pageOutcome(in, user) ==
  IF in.method # "GET"
  THEN [status |-> 404, msg |-> MsgNotFound, loc |-> "", handler |-> ""]
  ELSE IF in.path = PathRoot
  THEN IF requireAuth(user) = "login" THEN [status |-> 302, msg |-> "", loc |-> "/login", handler |-> ""]
       ELSE IF requireAuth(user) = "403" THEN [status |-> 403, msg |-> MsgLocked, loc |-> "", handler |-> ""]
       ELSE [status |-> 200, msg |-> "dashboard", loc |-> "", handler |-> "/"]
  ELSE IF in.path = PathLogin
  THEN IF user # NoUser THEN [status |-> 302, msg |-> "", loc |-> "/", handler |-> "/login"]
       ELSE [status |-> 200, msg |-> "login", loc |-> "", handler |-> "/login"]
  ELSE IF in.path = PathForce
  THEN IF requireAuth(user) = "login" THEN [status |-> 302, msg |-> "", loc |-> "/login", handler |-> ""]
       ELSE IF requireAuth(user) = "403" THEN [status |-> 403, msg |-> MsgLocked, loc |-> "", handler |-> ""]
       ELSE IF ~user.must_change_password
            THEN [status |-> 302, msg |-> "", loc |-> getRedirectForRole(user.role), handler |-> "/force-password-change"]
            ELSE [status |-> 200, msg |-> "force-password-change", loc |-> "", handler |-> "/force-password-change"]
  ELSE IF isRouterPath(in.path) /\ Len(in.path) <= 2
  THEN [status |-> 200, msg |-> "page", loc |-> "", handler |-> in.path[1]]
  ELSE [status |-> 404, msg |-> MsgNotFound, loc |-> "", handler |-> ""]

ServePage(r, in) ==
  /\ UNCHANGED <<report, isFakeDb, INITIAL_PASSWORD, special_assessments, serial>>
  /\ CanArrive(r, in)
  /\ in.method = "GET" \/ ~isPostRoute(in.path)
  /\ LET q == Loaded(in, TRUE)
         out == pageOutcome(in, q.user)
     IN  /\ Front(in, q.user) = "pass"
         /\ isRouterPath(in.path) => routerGate(in, q.user) = "next"
         /\ nextSid' = sidAfterLoad(in)
         /\ Respond(sessions, r, q, out.status, out.msg, out.loc, out.handler)
  /\ UNCHANGED <<users, loginAttempts, now, lockout, sinceSuccess, loggedOut>>
  /\ UNCHANGED tableVars

\* ------------------------------------------------------------- POST /login
\* server.js:243-262: the rate check, the missing-field check, then db.get
PostLogin(r, in) ==
  /\ UNCHANGED <<report, isFakeDb, INITIAL_PASSWORD, special_assessments, serial>>
  /\ CanArrive(r, in)
  /\ in.method = "POST" /\ in.path = PathLogin
  /\ LET key == buildLoginKey(in.email)
         q == [Loaded(in, TRUE) EXCEPT !.locked = now < lockout[key].until]
         checked == afterRateCheck(loginAttempts, key, now)
     IN  /\ Front(in, q.user) = "pass"
         /\ nextSid' = sidAfterLoad(in)
         /\ IF isLoginRateLimited(loginAttempts, key, now)
            THEN /\ loginAttempts' = checked
                 /\ Respond(sessions, r, q, 429, MsgRateLimited, "", "/login")
                 /\ UNCHANGED <<lockout, sinceSuccess>>
            ELSE IF in.email = "" \/ ~isString(in.password)
            THEN /\ loginAttempts' = recordLoginFailure(checked, key, now)
                 /\ noteFailure(key, now)
                 /\ Respond(sessions, r, q, 400, MsgMissing, "", "/login")
            ELSE /\ loginAttempts' = checked
                 /\ reqs' = [reqs EXCEPT ![r] = [q EXCEPT !.pc = "login_db"]]
                 /\ UNCHANGED <<sessions, response, lockout, sinceSuccess>>
  /\ UNCHANGED <<users, now, loggedOut>>
  /\ UNCHANGED tableVars

\* the row db.get finds: SELECT ... FROM users WHERE email = ?
userByEmail(email) ==
  IF \E u \in UserId : users[u].email = email
  THEN users[CHOOSE u \in UserId : users[u].email = email]
  ELSE [id |-> 0, email |-> "", password_hash |-> [alg |-> "", pw |-> Undefined],
        role |-> "", status |-> "", must_change_password |-> FALSE]

\* server.js:275-292: "credentials", "status" or "ok"
loginVerdict(user, password) ==
  IF user.id = 0 \/ ~verifyPassword(user.password_hash, password)
  THEN "credentials"
  ELSE IF user.status # "active" THEN "status"
  ELSE "ok"

\* the response to a login that loginVerdict refuses
loginRefusal_Distinct(verdict) ==
  IF verdict = "status" THEN [status |-> 403, msg |-> MsgLocked]
  ELSE [status |-> 401, msg |-> MsgLoginFailed]

loginRefusal(verdict) == [status |-> 401, msg |-> MsgLoginFailed]

\* server.js:267-294: the callback of db.get
LoginDbResult(r, out) ==
  /\ UNCHANGED <<report, isFakeDb, INITIAL_PASSWORD, special_assessments, serial>>
  /\ reqs[r].pc = "login_db"
  /\ storeAnswers(out)
  /\ LET q == reqs[r]
         key == buildLoginKey(q.in.email)
         user == userByEmail(q.in.email)
         verdict == loginVerdict(user, q.in.password)
     IN  IF out # "ok"
         THEN /\ Respond(sessions, r, q, 500, MsgDbError, "", "/login")
              /\ UNCHANGED <<loginAttempts, lockout, sinceSuccess>>
         ELSE IF verdict # "ok"
         THEN /\ loginAttempts' = recordLoginFailure(loginAttempts, key, now)
              /\ noteFailure(key, now)
              /\ Respond(sessions, r, q, loginRefusal(verdict).status,
                         loginRefusal(verdict).msg, "", "/login")
         ELSE /\ reqs' = [reqs EXCEPT ![r] =
                   [q EXCEPT !.pc = "login_regen", !.row = SessionUser(user)]]
              /\ UNCHANGED <<sessions, response, loginAttempts, lockout,
                             sinceSuccess>>
  /\ UNCHANGED <<users, nextSid, now, loggedOut>>
  /\ UNCHANGED tableVars

\* express-session regenerate: the old session is destroyed in the store
\* and the request gets a new session with a fresh identifier
regenerate_KeepsId(q) == [q EXCEPT !.user = NoUser, !.loaded = NoUser]

regenerate(q) ==
  [q EXCEPT !.sid = nextSid, !.user = NoUser, !.loaded = NoUser,
            !.dirty = FALSE]

\* server.js:294-310: the callback of req.session.regenerate attaches the
\* payload, resets the key's attempts and calls req.session.save
LoginRegenerated(r) ==
  /\ UNCHANGED <<report, isFakeDb, INITIAL_PASSWORD, special_assessments, serial>>
  /\ reqs[r].pc = "login_regen"
  /\ nextSid <= MaxSid
  /\ LET q == reqs[r]
         fresh == regenerate(q)
     IN  /\ sessions' = [sessions EXCEPT ![q.sid] = NoSession]
         /\ nextSid' = IF fresh.sid = nextSid THEN nextSid + 1 ELSE nextSid
         /\ reqs' = [reqs EXCEPT ![r] =
                       [fresh EXCEPT !.pc = "login_save", !.user = q.row]]
         /\ loginAttempts' =
              resetLoginAttempts(loginAttempts, buildLoginKey(q.in.email))
         /\ noteSuccess(buildLoginKey(q.in.email))
  /\ UNCHANGED <<users, now, response, loggedOut>>
  /\ UNCHANGED tableVars

\* server.js:310-313: the callback of req.session.save (sessionStore.js set)
\* sends the redirect
LoginSaved(r) ==
  /\ UNCHANGED <<report, isFakeDb, INITIAL_PASSWORD, special_assessments, serial>>
  /\ reqs[r].pc = "login_save"
  /\ LET q == reqs[r]
         saved == [sessions EXCEPT ![q.sid] = [present |-> TRUE, user |-> q.user]]
     IN  Respond(saved, r, [q EXCEPT !.loaded = q.user], 302, "",
                 IF q.row.must_change_password THEN "/force-password-change"
                 ELSE getRedirectForRole(q.row.role), "/login")
  /\ UNCHANGED <<users, nextSid, loginAttempts, now, lockout, sinceSuccess,
                 loggedOut>>
  /\ UNCHANGED tableVars


\* --------------------------------------------- POST /force-password-change
\* server.js:217-229: requireAuth, the flag, the password policy, then db.run
PostForcePw(r, in) ==
  /\ UNCHANGED <<report, isFakeDb, INITIAL_PASSWORD, special_assessments, serial>>
  /\ CanArrive(r, in)
  /\ in.method = "POST" /\ in.path = PathForce
  /\ LET q == Loaded(in, TRUE)
         validationError == getPasswordValidationError(in.newPassword)
     IN  /\ Front(in, q.user) = "pass"
         /\ nextSid' = sidAfterLoad(in)
         /\ IF requireAuth(q.user) = "login"
            THEN /\ Respond(sessions, r, q, 302, "", "/login", "")
                 /\ UNCHANGED users
            ELSE IF requireAuth(q.user) = "403"
            THEN /\ Respond(sessions, r, q, 403, MsgLocked, "", "")
                 /\ UNCHANGED users
            ELSE IF ~q.user.must_change_password
            THEN /\ Respond(sessions, r, q, 302, "",
                            getRedirectForRole(q.user.role), "/force-password-change")
                 /\ UNCHANGED users
            ELSE IF validationError # ""
            THEN /\ Respond(sessions, r, q, 400, validationError, "",
                            "/force-password-change")
                 /\ UNCHANGED users
            ELSE /\ reqs' = [reqs EXCEPT ![r] = [q EXCEPT !.pc = "fpc_db"]]
                 /\ UNCHANGED <<users, sessions, response>>
  /\ UNCHANGED <<loginAttempts, now, lockout, sinceSuccess, loggedOut>>
  /\ UNCHANGED tableVars

\* server.js:230-239: the callback of db.run (db.js:102-108); the response
\* ends the request, and the session, modified, is written to the store
ForcePwDbResult(r, out) ==
  /\ UNCHANGED <<report, isFakeDb, INITIAL_PASSWORD, special_assessments, serial>>
  /\ reqs[r].pc = "fpc_db"
  /\ LET q == reqs[r]
         cleared == [q EXCEPT !.user.must_change_password = FALSE]
     IN  IF out # "ok"
         THEN /\ Respond(sessions, r, q, errorStatus(out), errorMessage(out), "",
                         "/force-password-change")
              /\ UNCHANGED users
         ELSE /\ users' = [users EXCEPT ![q.user.id] =
                   [@ EXCEPT !.password_hash = hashPassword(q.in.newPassword),
                             !.must_change_password = FALSE]]
              /\ Respond(sessions, r, cleared, 302, "",
                         getRedirectForRole(q.user.role), "/force-password-change")
  /\ UNCHANGED <<nextSid, loginAttempts, now, lockout, sinceSuccess, loggedOut>>
  /\ UNCHANGED tableVars

\* ------------------------------------------------------------ POST /logout
\* server.js:320-322: req.session.destroy removes the session from the
\* request and asks the store to delete it
PostLogout(r, in) ==
  /\ UNCHANGED <<report, isFakeDb, INITIAL_PASSWORD, special_assessments, serial>>
  /\ CanArrive(r, in)
  /\ in.method = "POST" /\ in.path = PathLogout
  /\ LET q == Loaded(in, TRUE)
     IN  /\ Front(in, q.user) = "pass"
         /\ nextSid' = sidAfterLoad(in)
         /\ reqs' = [reqs EXCEPT ![r] = [q EXCEPT !.pc = "logout_destroy"]]
  /\ UNCHANGED <<users, sessions, response, loginAttempts, now, lockout,
                 sinceSuccess, loggedOut>>
  /\ UNCHANGED tableVars

\* sessionStore.js destroy, then the callback's redirect; the request has
\* no session left to save
LogoutDestroyed(r) ==
  /\ UNCHANGED <<report, isFakeDb, INITIAL_PASSWORD, special_assessments, serial>>
  /\ reqs[r].pc = "logout_destroy"
  /\ LET q == reqs[r]
     IN  /\ Respond([sessions EXCEPT ![q.sid] = NoSession], r,
                    [q EXCEPT !.sid = 0], 302, "", "/login",
                    "/logout")
         /\ loggedOut' = loggedOut \cup {q.sid}
  /\ UNCHANGED <<users, nextSid, loginAttempts, now, lockout, sinceSuccess>>
  /\ UNCHANGED tableVars

\* ------------------------------------------- POST /admin/users/:id/delete
paramId(p) == CASE p = "1" -> 1 [] p = "2" -> 2 [] p = "3" -> 3 [] OTHER -> 0

\* the admin router (router.use(requireAuth, requireRole("admin"))) and the
\* handler up to its await
AdminDeleteUser(r, in) ==
  /\ UNCHANGED <<report, isFakeDb, INITIAL_PASSWORD, special_assessments, serial>>
  /\ CanArrive(r, in)
  /\ in.method = "POST" /\ isDeleteUserPath(in.path)
  /\ LET q == Loaded(in, TRUE)
     IN  /\ Front(in, q.user) = "pass"
         /\ routerGate(in, q.user) = "next"
         /\ nextSid' = sidAfterLoad(in)
         /\ reqs' = [reqs EXCEPT ![r] = [q EXCEPT !.pc = "admin_db"]]
  /\ UNCHANGED <<users, sessions, response, loginAttempts, now, lockout,
                 sinceSuccess, loggedOut>>
  /\ UNCHANGED tableVars

\* UPDATE users SET status = 'deleted' WHERE id = ? (db.js:109-114)
AdminDeleteDbResult(r, out) ==
  /\ UNCHANGED <<report, isFakeDb, INITIAL_PASSWORD, special_assessments, serial>>
  /\ reqs[r].pc = "admin_db"
  /\ LET q == reqs[r]
         id == paramId(q.in.path[3])
     IN  IF out # "ok"
         THEN /\ Respond(sessions, r, q, errorStatus(out), errorMessage(out), "", "admin")
              /\ UNCHANGED users
         ELSE /\ users' = [u \in UserId |->
                   IF u = id THEN [users[u] EXCEPT !.status = "deleted"]
                   ELSE users[u]]
              /\ Respond(sessions, r, q, 302, "",
                         "/admin/users", "admin")
  /\ UNCHANGED <<nextSid, loginAttempts, now, lockout, sinceSuccess, loggedOut>>
  /\ UNCHANGED tableVars

\* -------------------------------------------------- POST /admin/users/:id
MsgMissingFields == "Fehlende Felder beim Aktualisieren."

\* the admin router's guards and the handler up to its await: a missing
\* field is answered with 400
AdminUpdateUser(r, in) ==
  /\ CanArrive(r, in)
  /\ in.method = "POST" /\ isUpdateUserPath(in.path)
  /\ LET q == Loaded(in, TRUE)
     IN  /\ Front(in, q.user) = "pass"
         /\ routerGate(in, q.user) = "next"
         /\ nextSid' = sidAfterLoad(in)
         /\ IF in.email = "" \/ in.role = "" \/ in.status = ""
            THEN Respond(sessions, r, q, 400, MsgMissingFields, "", "admin")
            ELSE /\ reqs' = [reqs EXCEPT ![r] = [q EXCEPT !.pc = "admin_update"]]
                 /\ UNCHANGED <<sessions, response>>
  /\ UNCHANGED <<users, loginAttempts, now, lockout, sinceSuccess, loggedOut,
                 isFakeDb, INITIAL_PASSWORD, report>>
  /\ UNCHANGED tableVars
  /\ UNCHANGED <<special_assessments, serial>>

\* UPDATE users SET email = ?, role = ?, status = ? WHERE id = ?
\* (db.js:94-101); an error without UNIQUE in its text goes to the error
\* handler
AdminUpdateDbResult(r, out) ==
  /\ reqs[r].pc = "admin_update"
  /\ storeAnswers(out)
  /\ LET q == reqs[r]
         id == paramId(q.in.path[3])
     IN  IF out # "ok"
         THEN /\ Respond(sessions, r, q, errorStatus(out), errorMessage(out), "", "admin")
              /\ UNCHANGED users
         ELSE /\ users' = [u \in UserId |->
                   IF u = id
                   THEN [users[u] EXCEPT !.email = q.in.email, !.role = q.in.role,
                                         !.status = q.in.status]
                   ELSE users[u]]
              /\ Respond(sessions, r, q, 302, "", "/admin/users", "admin")
  /\ UNCHANGED <<nextSid, loginAttempts, now, lockout, sinceSuccess, loggedOut,
                 isFakeDb, INITIAL_PASSWORD, report>>
  /\ UNCHANGED tableVars
  /\ UNCHANGED <<special_assessments, serial>>

\* -------------------------------------------- POST /admin/users/:id/reset
\* student-dashboard.js:1085-1101: the handler up to its await.  No password
\* policy is applied.  hashPassword (db.js:8-23, crypto.scryptSync) throws a
\* TypeError for a password that is not a string; the statement stands
\* before the try block of the async handler, so the handler's promise is
\* rejected: Express 5 hands the error to the error handler, Express 4 drops
\* it and the request is never answered (pc "unanswered").
AdminResetPassword(r, in) ==
  /\ CanArrive(r, in)
  /\ in.method = "POST" /\ isResetPath(in.path)
  /\ LET q == Loaded(in, TRUE)
         wantsInitial == in.useInitial = "1"
         chosenPassword == IF wantsInitial THEN INITIAL_PASSWORD ELSE in.password
     IN  /\ Front(in, q.user) = "pass"
         /\ routerGate(in, q.user) = "next"
         /\ nextSid' = sidAfterLoad(in)
         /\ IF ~wantsInitial /\ ~isString(in.password)
            THEN Respond(sessions, r, q, 400, "Kein Passwort angegeben.", "", "admin")
            ELSE IF ~isString(chosenPassword)
            THEN \/ Respond(sessions, r, q, errorStatus("other"),
                            errorMessage("other"), "", "admin")
                 \/ /\ reqs' = [reqs EXCEPT ![r] = [q EXCEPT !.pc = "unanswered"]]
                    /\ UNCHANGED <<sessions, response>>
            ELSE /\ reqs' = [reqs EXCEPT ![r] = [q EXCEPT !.pc = "admin_reset"]]
                 /\ UNCHANGED <<sessions, response>>
  /\ UNCHANGED <<users, loginAttempts, now, lockout, sinceSuccess, loggedOut,
                 isFakeDb, INITIAL_PASSWORD, report>>
  /\ UNCHANGED tableVars
  /\ UNCHANGED <<special_assessments, serial>>

\* student-dashboard.js:1103-1109: UPDATE users SET password_hash = ?,
\* must_change_password = ? WHERE id = ? (db.js:102-108), then the redirect
AdminResetDbResult(r, out) ==
  /\ reqs[r].pc = "admin_reset"
  /\ storeAnswers(out)
  /\ LET q == reqs[r]
         id == paramId(q.in.path[3])
         wantsInitial == q.in.useInitial = "1"
         chosenPassword == IF wantsInitial THEN INITIAL_PASSWORD ELSE q.in.password
     IN  IF out # "ok"
         THEN /\ Respond(sessions, r, q, errorStatus(out), errorMessage(out), "", "admin")
              /\ UNCHANGED users
         ELSE /\ users' = [u \in UserId |->
                   IF u = id
                   THEN [users[u] EXCEPT !.password_hash = hashPassword(chosenPassword),
                                         !.must_change_password = wantsInitial]
                   ELSE users[u]]
              /\ Respond(sessions, r, q, 302, "", "/admin/users", "admin")
  /\ UNCHANGED <<nextSid, loginAttempts, now, lockout, sinceSuccess, loggedOut,
                 isFakeDb, INITIAL_PASSWORD, report>>
  /\ UNCHANGED tableVars
  /\ UNCHANGED <<special_assessments, serial>>

\* ----------------------------- POST /teacher/add-grade/:classId/:studentId
\* part_001 removeUploadedFile: fs.promises.unlink of req.file.path; nothing
\* happens without a file or when the file is gone already
removeUploadedFile_Keeps(onDisk, file) == onDisk

removeUploadedFile(onDisk, file) == onDisk \ {file}

\* what multer (upload.single) leaves: the stored file and the error it
\* passes to the callback.  fileFilter refuses a wrong type before anything
\* is written; a file over the size limit is removed by multer itself.
multerError(in) ==
  CASE in.upload = "badtype" -> "UNSUPPORTED_FILE_TYPE"
    [] in.upload = "toolarge" -> "LIMIT_FILE_SIZE"
    [] OTHER -> ""

multerStores(in) == in.multipart /\ in.upload \in {"ok", "badsig"}

\* part_001 hasValidFileSignature
hasValidFileSignature(in) == in.upload = "ok"

\* part_001 normalizeExternalLink on the links of the model
normalizeExternalLink(raw) ==
  CASE raw = "" -> [error |-> "", value |-> ""]
    [] raw = "https://x" -> [error |-> "", value |-> "https://x/"]
    [] raw = "ftp://x" ->
         [error |-> "Der Link muss mit http:// oder https:// beginnen.", value |-> ""]
    [] OTHER -> [error |-> "Ungueltiger Link.", value |-> ""]

\* JavaScript numbers: the finite ones of the model are integers
NaN == [kind |-> "NaN", v |-> 0]
Infinity == [kind |-> "Infinity", v |-> 0]
Finite(n) == [kind |-> "finite", v |-> n]

\* Number(text) of a form field
Number(text) ==
  CASE text \in {"", "0"} -> Finite(0)
    [] text = "1" -> Finite(1)
    [] text = "2" -> Finite(2)
    [] text = "3" -> Finite(3)
    [] text = "5" -> Finite(5)
    [] text = "6" -> Finite(6)
    [] text = "9" -> Finite(9)
    [] text = "50" -> Finite(50)
    [] text = "101" -> Finite(101)
    [] text = "Infinity" -> Infinity
    [] OTHER -> NaN

isFinite_Always(x) == TRUE

\* Number.isFinite(x), and x < k, x > k for an integer k (a comparison
\* with NaN is false)
isFinite(x) == x.kind = "finite"

lessThan(x, k) == x.kind = "finite" /\ x.v < k
greaterThan(x, k) == x.kind = "Infinity" \/ (x.kind = "finite" /\ x.v > k)

\* part_001 loadClassForTeacher: SELECT id, name, subject FROM classes WHERE
\* id = ? AND teacher_id = ?.  In createFakeDb's get the branch for "SELECT
\* id, name, subject FROM classes WHERE id = ?" (db.js:323) comes first and
\* matches this text as well: it looks the class up by id alone.
loadClassForTeacher(classId, teacherId) ==
  \E c \in classes :
    /\ c.id = paramId(classId)
    /\ isFakeDb \/ c.teacher_id = teacherId

studentInClass(classId, studentId) ==
  \E st \in students : st.class_id = paramId(classId) /\ st.id = paramId(studentId)

\* getAsync("SELECT id FROM grade_templates WHERE id = ? AND class_id = ?"):
\* createFakeDb answers this text in all() only (db.js:582); its get() has
\* no branch for it and leaves the row undefined
templateInClass(templateId, classId) ==
  /\ ~isFakeDb
  /\ \E t \in grade_templates :
       t.id = paramId(templateId) /\ t.class_id = paramId(classId)

\* server.js error handler, reached through the router's error handler
\* (part_001:1151-1158), which removes the uploaded file once more
RespondError(r, q, err) ==
  Respond(sessions, r, q, errorStatus(err), errorMessage(err), "", "")

\* the global middleware, the teacher router's gate and multer
PostAddGrade(r, in) ==
  /\ UNCHANGED <<report, isFakeDb, INITIAL_PASSWORD, special_assessments, serial>>
  /\ CanArrive(r, in)
  /\ in.method = "POST" /\ isAddGradePath(in.path)
  /\ nextFile <= MaxFile
  /\ LET q == Loaded(in, ~in.multipart)
     IN  /\ Front(in, q.user) = "pass"
         /\ routerGate(in, q.user) = "next"
         /\ nextSid' = sidAfterLoad(in)
         /\ IF multerStores(in)
            THEN /\ files' = files \cup {nextFile}
                 /\ nextFile' = nextFile + 1
                 /\ reqs' = [reqs EXCEPT ![r] =
                      [q EXCEPT !.pc = "upload_cb", !.file = nextFile]]
            ELSE /\ reqs' = [reqs EXCEPT ![r] =
                      [q EXCEPT !.pc = "upload_cb",
                                !.uploadErr = IF in.multipart THEN multerError(in) ELSE ""]]
                 /\ UNCHANGED <<files, nextFile>>
  /\ UNCHANGED <<users, sessions, response, loginAttempts, now, lockout,
                 sinceSuccess, loggedOut>>
  /\ UNCHANGED <<classes, students, grade_templates, grades, grade_notifications>>

\* part_001 handleUpload, the callback of upload.single up to its first
\* store query: runCsrf, the signature check, the removals
HandleUpload(r) ==
  /\ UNCHANGED <<report, isFakeDb, INITIAL_PASSWORD, special_assessments, serial>>
  /\ reqs[r].pc = "upload_cb"
  /\ LET q == reqs[r]
         signatureOk == hasValidFileSignature(q.in)
     IN  IF ~q.in.csrfOk
         THEN /\ files' = removeUploadedFile(files, q.file)
              /\ RespondError(r, q, "EBADCSRFTOKEN")
         ELSE IF q.uploadErr = "" /\ q.file # 0 /\ ~signatureOk
         THEN /\ files' = removeUploadedFile(files, q.file)
              /\ reqs' = [reqs EXCEPT ![r] =
                   [q EXCEPT !.pc = "upload_failed",
                             !.uploadErr = "INVALID_FILE_SIGNATURE"]]
              /\ UNCHANGED <<sessions, response>>
         ELSE IF q.uploadErr = ""
         THEN /\ reqs' = [reqs EXCEPT ![r] = [q EXCEPT !.pc = "grade_load"]]
              /\ UNCHANGED <<files, sessions, response>>
         ELSE /\ files' = removeUploadedFile(files, q.file)
              /\ reqs' = [reqs EXCEPT ![r] = [q EXCEPT !.pc = "upload_failed"]]
              /\ UNCHANGED <<sessions, response>>
  /\ UNCHANGED <<users, nextSid, loginAttempts, now, lockout, sinceSuccess,
                 loggedOut>>
  /\ UNCHANGED <<classes, students, grade_templates, grades, grade_notifications,
                 nextFile>>

uploadErrorMessage(code) ==
  CASE code = "LIMIT_FILE_SIZE" -> "Datei ist zu gross."
    [] code = "UNSUPPORTED_FILE_TYPE" -> "Nur PDF-, JPG- oder PNG-Dateien sind erlaubt."
    [] code = "INVALID_FILE_SIGNATURE" -> "Dateiinhalt passt nicht zum Dateityp."
    [] OTHER -> "Upload fehlgeschlagen. Bitte erneut versuchen."

\* part_001 handleUpload after an upload error: the form is rendered again
UploadFailed(r, out) ==
  /\ UNCHANGED <<report, isFakeDb, INITIAL_PASSWORD, special_assessments, serial>>
  /\ reqs[r].pc = "upload_failed"
  /\ storeAnswers(out)
  /\ LET q == reqs[r]
         classId == q.in.path[3]
         studentId == q.in.path[4]
     IN  /\ files' = removeUploadedFile(files, q.file)
         /\ IF out # "ok"
            THEN RespondError(r, q, out)
            ELSE IF ~loadClassForTeacher(classId, q.user.id)
            THEN Respond(sessions, r, q, 404, "Klasse nicht gefunden.", "", "add-grade")
            ELSE IF ~studentInClass(classId, studentId)
            THEN Respond(sessions, r, q, 404, "Schueler nicht gefunden.", "", "add-grade")
            ELSE Respond(sessions, r, q, 400, uploadErrorMessage(q.uploadErr), "",
                         "add-grade")
  /\ UNCHANGED <<users, nextSid, loginAttempts, now, lockout, sinceSuccess,
                 loggedOut>>
  /\ UNCHANGED <<classes, students, grade_templates, grades, grade_notifications,
                 nextFile>>

\* part_001:614-685, the checks of the route handler up to the template
\* lookup; "" is no error
addGradeError_AllowsBoth(q) ==
  LET classId == q.in.path[3]
      studentId == q.in.path[4]
      gradeValue == Number(q.in.grade)
      linkResult == normalizeExternalLink(q.in.external_link)
  IN  IF ~loadClassForTeacher(classId, q.user.id)
      THEN [status |-> 404, msg |-> "Klasse nicht gefunden."]
      ELSE IF ~studentInClass(classId, studentId)
      THEN [status |-> 404, msg |-> "Schueler nicht gefunden."]
      ELSE IF q.in.grade_template_id = "" \/ q.in.grade = ""
      THEN [status |-> 400, msg |-> "Bitte alle Pflichtfelder ausfuellen."]
      ELSE IF ~isFinite(gradeValue) \/ lessThan(gradeValue, 1)
                \/ greaterThan(gradeValue, 5)
      THEN [status |-> 400, msg |-> "Note muss zwischen 1 und 5 liegen."]
      ELSE IF linkResult.error # ""
      THEN [status |-> 400, msg |-> linkResult.error]
      ELSE [status |-> 0, msg |-> ""]

addGradeError(q) ==
  LET classId == q.in.path[3]
      studentId == q.in.path[4]
      gradeValue == Number(q.in.grade)
      linkResult == normalizeExternalLink(q.in.external_link)
  IN  IF ~loadClassForTeacher(classId, q.user.id)
      THEN [status |-> 404, msg |-> "Klasse nicht gefunden."]
      ELSE IF ~studentInClass(classId, studentId)
      THEN [status |-> 404, msg |-> "Schueler nicht gefunden."]
      ELSE IF q.in.grade_template_id = "" \/ q.in.grade = ""
      THEN [status |-> 400, msg |-> "Bitte alle Pflichtfelder ausfuellen."]
      ELSE IF ~isFinite(gradeValue) \/ lessThan(gradeValue, 1)
                \/ greaterThan(gradeValue, 5)
      THEN [status |-> 400, msg |-> "Note muss zwischen 1 und 5 liegen."]
      ELSE IF linkResult.error # ""
      THEN [status |-> 400, msg |-> linkResult.error]
      ELSE IF q.file # 0 /\ linkResult.value # ""
      THEN [status |-> 400,
            msg |-> "Bitte entweder eine Datei hochladen oder einen Link angeben, nicht beides."]
      ELSE [status |-> 0, msg |-> ""]

AddGradeLoad(r, out) ==
  /\ UNCHANGED <<report, isFakeDb, INITIAL_PASSWORD, special_assessments, serial>>
  /\ reqs[r].pc = "grade_load"
  /\ storeAnswers(out)
  /\ LET q == reqs[r]
         error == addGradeError(q)
     IN  IF out # "ok"
         THEN /\ files' = removeUploadedFile(files, q.file)
              /\ RespondError(r, q, out)
         ELSE IF error.status # 0
         THEN /\ files' = removeUploadedFile(files, q.file)
              /\ Respond(sessions, r, q, error.status, error.msg, "", "add-grade")
         ELSE /\ reqs' = [reqs EXCEPT ![r] = [q EXCEPT !.pc = "grade_template"]]
              /\ UNCHANGED <<files, sessions, response>>
  /\ UNCHANGED <<users, nextSid, loginAttempts, now, lockout, sinceSuccess,
                 loggedOut>>
  /\ UNCHANGED <<classes, students, grade_templates, grades, grade_notifications,
                 nextFile>>

\* part_001:687-702: SELECT id FROM grade_templates WHERE id = ? AND class_id = ?
AddGradeTemplate(r, out) ==
  /\ UNCHANGED <<report, isFakeDb, INITIAL_PASSWORD, special_assessments, serial>>
  /\ reqs[r].pc = "grade_template"
  /\ storeAnswers(out)
  /\ LET q == reqs[r]
     IN  IF out # "ok"
         THEN /\ files' = removeUploadedFile(files, q.file)
              /\ RespondError(r, q, out)
         ELSE IF ~templateInClass(q.in.grade_template_id, q.in.path[3])
         THEN /\ files' = removeUploadedFile(files, q.file)
              /\ Respond(sessions, r, q, 400, "Pruefungsvorlage nicht gefunden.", "",
                         "add-grade")
         ELSE /\ reqs' = [reqs EXCEPT ![r] = [q EXCEPT !.pc = "grade_insert"]]
              /\ UNCHANGED <<files, sessions, response>>
  /\ UNCHANGED <<users, nextSid, loginAttempts, now, lockout, sinceSuccess,
                 loggedOut>>
  /\ UNCHANGED <<classes, students, grade_templates, grades, grade_notifications,
                 nextFile>>

\* the row of INSERT INTO grades (part_001:710-724, db.js:204-232)
gradeRow(q) ==
  [id |-> serial.grades,
   student_id |-> paramId(q.in.path[4]),
   class_id |-> paramId(q.in.path[3]),
   grade_template_id |-> paramId(q.in.grade_template_id),
   grade |-> Number(q.in.grade),
   attachment_path |-> q.file,
   external_link |-> normalizeExternalLink(q.in.external_link).value]

isDuplicate(row) ==
  \E g \in grades :
    g.student_id = row.student_id /\ g.grade_template_id = row.grade_template_id

\* The error texts of the model.  createFakeDb raises "UNIQUE constraint
\* failed: ..." (db.js:80, 177); PostgreSQL reports a violated UNIQUE as
\* 'duplicate key value violates unique constraint "..."' and a violated
\* reference as '... violates foreign key constraint "..."', and the wrapper
\* hands the error on as it is (db.js:801-807).
ErrUniqueFake == "UNIQUE constraint failed"
ErrUniquePg == "duplicate key value violates unique constraint"
ErrForeignKey == "violates foreign key constraint"
ErrCheck == "violates check constraint"

\* x is a number between low and high
inRange(x, low, high) == isFinite(x) /\ ~lessThan(x, low) /\ ~greaterThan(x, high)

\* String(err).includes("UNIQUE") (part_001:731)
includesUNIQUE(err) == err = ErrUniqueFake

\* What the store answers to the INSERT ("" is success).  createFakeDb
\* (db.js:204-232) pushes the row without looking at the rows it has;
\* PostgreSQL enforces UNIQUE (student_id, grade_template_id) (db.js:999),
\* the references of the row (db.js:988-990) and CHECK (grade >= 1 AND
\* grade <= 5) (db.js:991).
insertGradeError(row) ==
  IF isFakeDb THEN ""
  ELSE IF ~inRange(row.grade, 1, 5) THEN ErrCheck
  ELSE IF \/ ~\E st \in students : st.id = row.student_id
          \/ ~\E c \in classes : c.id = row.class_id
          \/ ~\E t \in grade_templates : t.id = row.grade_template_id
       THEN ErrForeignKey
       ELSE IF isDuplicate(row) THEN ErrUniquePg ELSE ""

\* the INSERT is executed, or the connection to the server fails
InsertOutcome == {"ok", "ECONNRESET"}

AddGradeInsert(r, out) ==
  /\ UNCHANGED <<report, isFakeDb, INITIAL_PASSWORD, special_assessments>>
  /\ reqs[r].pc = "grade_insert"
  /\ storeAnswers(out)
  /\ (out = "ok" /\ insertGradeError(gradeRow(reqs[r])) = "")
       => serial.grades <= MaxGrade
  /\ LET q == reqs[r]
         err == IF out = "ok" THEN insertGradeError(gradeRow(q)) ELSE out
     IN  IF err = ""
         THEN /\ grades' = grades \cup {gradeRow(q)}
              /\ serial' = [serial EXCEPT !.grades = @ + 1]
              /\ reqs' = [reqs EXCEPT ![r] = [q EXCEPT !.pc = "grade_notify"]]
              /\ UNCHANGED <<files, sessions, response>>
         ELSE IF includesUNIQUE(err)
         THEN /\ files' = removeUploadedFile(files, q.file)
              /\ Respond(sessions, r, q, 409, "Diese Pruefung wurde bereits benotet.",
                         "", "add-grade")
              /\ UNCHANGED <<grades, serial>>
         ELSE /\ files' = removeUploadedFile(files, q.file)
              /\ RespondError(r, q, err)
              /\ UNCHANGED <<grades, serial>>
  /\ UNCHANGED <<users, nextSid, loginAttempts, now, lockout, sinceSuccess,
                 loggedOut>>
  /\ UNCHANGED <<classes, students, grade_templates, grade_notifications, nextFile>>

\* the row of INSERT INTO grade_notifications (db.js:258-269, 1034-1043);
\* read_at 0 is NULL
notificationRow(studentId) ==
  [id |-> serial.grade_notifications, student_id |-> studentId, read_at |-> 0]

\* part_001:725-745: INSERT INTO grade_notifications, then the redirect
AddGradeNotify(r, out) ==
  /\ UNCHANGED <<report, isFakeDb, INITIAL_PASSWORD, special_assessments>>
  /\ reqs[r].pc = "grade_notify"
  /\ storeAnswers(out)
  /\ LET q == reqs[r]
     IN  IF out = "ok"
         THEN /\ grade_notifications' = grade_notifications \cup
                   {notificationRow(paramId(q.in.path[4]))}
              /\ serial' = [serial EXCEPT !.grade_notifications = @ + 1]
              /\ Respond(sessions, r, q, 302, "", "/teacher/student-grades", "add-grade")
              /\ UNCHANGED files
         ELSE /\ files' = removeUploadedFile(files, q.file)
              /\ RespondError(r, q, out)
              /\ UNCHANGED <<grade_notifications, serial>>
  /\ UNCHANGED <<users, nextSid, loginAttempts, now, lockout, sinceSuccess,
                 loggedOut>>
  /\ UNCHANGED <<classes, students, grade_templates, grades, nextFile>>

\* ------------------------------------------------- the store's statements
\* The tables as one record, and what db.run does to them for each statement
\* of the routes below: err is the error handed to the callback ("" is
\* none), db the tables afterwards.  With createFakeDb a statement is what
\* the first matching branch of run() does (db.js:74-274), and nothing when
\* no branch matches; with PostgreSQL it is the statement under the
\* references of the schema (db.js:931-1043): ON DELETE CASCADE from
\* students and classes to grades and special_assessments and from classes
\* and grade_templates to grade_templates and grades, and no action (an
\* error) from grade_notifications to students and from students to classes.
Tables ==
  [classes |-> classes, students |-> students,
   grade_templates |-> grade_templates, grades |-> grades,
   special_assessments |-> special_assessments,
   grade_notifications |-> grade_notifications]

Done(db) == [err |-> "", db |-> db]
Failed(err, db) == [err |-> err, db |-> db]

\* the rows that ON DELETE CASCADE removes with a set of students
withoutStudents(db, ids) ==
  [db EXCEPT
     !.students = {st \in @ : st.id \notin ids},
     !.grades = {g \in @ : g.student_id \notin ids},
     !.special_assessments = {a \in @ : a.student_id \notin ids}]

\* DELETE FROM students WHERE class_id = ?   (createFakeDb: db.js:158-165)
deleteStudentsOfClass(db, classId) ==
  LET ids == {st.id : st \in {x \in db.students : x.class_id = classId}}
  IN  IF isFakeDb
      THEN Done([db EXCEPT
                   !.students = {st \in @ : st.class_id # classId},
                   !.special_assessments = {a \in @ : a.class_id # classId}])
      ELSE IF \E n \in db.grade_notifications : n.student_id \in ids
           THEN Failed(ErrForeignKey, db)
           ELSE Done(withoutStudents(db, ids))

\* DELETE FROM classes WHERE id = ?   (createFakeDb: db.js:166-173)
deleteClass(db, classId) ==
  IF isFakeDb
  THEN Done([db EXCEPT
               !.classes = {c \in @ : c.id # classId},
               !.special_assessments = {a \in @ : a.class_id # classId}])
  ELSE IF \E st \in db.students : st.class_id = classId
       THEN Failed(ErrForeignKey, db)
       ELSE LET templates == {t.id : t \in {x \in db.grade_templates :
                                                x.class_id = classId}}
            IN  Done([db EXCEPT
                  !.classes = {c \in @ : c.id # classId},
                  !.grade_templates = {t \in @ : t.class_id # classId},
                  !.grades = {g \in @ : g.class_id # classId
                                         /\ g.grade_template_id \notin templates},
                  !.special_assessments = {a \in @ : a.class_id # classId}])

\* DELETE FROM students WHERE id = ? AND class_id = ?
\* (createFakeDb: db.js:145-157, which removes the grades and special
\* assessments of the id whether or not a student row matched)
deleteStudent(db, id, classId) ==
  IF isFakeDb
  THEN Done([db EXCEPT
               !.students = {st \in @ : ~(st.id = id /\ st.class_id = classId)},
               !.grades = {g \in @ : g.student_id # id},
               !.special_assessments = {a \in @ : a.student_id # id}])
  ELSE IF ~\E st \in db.students : st.id = id /\ st.class_id = classId
       THEN Done(db)
       ELSE IF \E n \in db.grade_notifications : n.student_id = id
            THEN Failed(ErrForeignKey, db)
            ELSE Done(withoutStudents(db, {id}))

\* DELETE FROM grade_notifications WHERE student_id = ?   (db.js:140-144)
deleteNotificationsOfStudent(db, id) ==
  Done([db EXCEPT !.grade_notifications = {n \in @ : n.student_id # id}])

\* DELETE FROM grades WHERE id = ? AND class_id = ?
\* (createFakeDb: no branch of run() matches)
deleteGrade(db, id, classId) ==
  IF isFakeDb THEN Done(db)
  ELSE Done([db EXCEPT
               !.grades = {g \in @ : ~(g.id = id /\ g.class_id = classId)}])

\* UPDATE grades SET attachment_path = NULL, ... WHERE id = ? AND class_id = ?
\* (createFakeDb: no branch of run() matches)
clearAttachment(db, id, classId) ==
  IF isFakeDb THEN Done(db)
  ELSE Done([db EXCEPT
               !.grades = {IF g.id = id /\ g.class_id = classId
                           THEN [g EXCEPT !.attachment_path = 0]
                           ELSE g : g \in @}])

\* DELETE FROM grade_templates WHERE id = ? AND class_id = ?
\* (createFakeDb: no branch of run() matches)
deleteTemplate(db, id, classId) ==
  IF isFakeDb THEN Done(db)
  ELSE IF ~\E t \in db.grade_templates : t.id = id /\ t.class_id = classId
       THEN Done(db)
       ELSE Done([db EXCEPT
                    !.grade_templates = {t \in @ : t.id # id},
                    !.grades = {g \in @ : g.grade_template_id # id}])

\* the tables after a statement
Commit(db) ==
  /\ classes' = db.classes
  /\ students' = db.students
  /\ grade_templates' = db.grade_templates
  /\ grades' = db.grades
  /\ special_assessments' = db.special_assessments
  /\ grade_notifications' = db.grade_notifications

\* what a statement answers: the connection error, or its own result
answer(out, result) == IF out = "ok" THEN result ELSE Failed(out, Tables)

\* ------------------------------------------- the routes on classes and grades
\* what a step leaves alone
authFrame ==
  UNCHANGED <<users, nextSid, loginAttempts, now, lockout, sinceSuccess,
              loggedOut, isFakeDb, INITIAL_PASSWORD, report>>
tablesFrame ==
  UNCHANGED <<classes, students, grade_templates, grades, special_assessments,
              grade_notifications>>

\* the handler goes on to its next statement
Continue(r, q, pc) ==
  /\ reqs' = [reqs EXCEPT ![r] = [q EXCEPT !.pc = pc]]
  /\ UNCHANGED <<sessions, response>>

\* the global middleware and the gate of the route's router
PostRoute(r, in) ==
  /\ CanArrive(r, in)
  /\ in.method = "POST" /\ routeOf(in.path) # ""
  /\ LET q == Loaded(in, TRUE)
     IN  /\ Front(in, q.user) = "pass"
         /\ routerGate(in, q.user) = "next"
         /\ nextSid' = sidAfterLoad(in)
         /\ reqs' = [reqs EXCEPT ![r] = [q EXCEPT !.pc = routeOf(in.path)]]
  /\ UNCHANGED <<users, sessions, response, loginAttempts, now, lockout,
                 sinceSuccess, loggedOut, isFakeDb, INITIAL_PASSWORD, report, serial, files, nextFile>>
  /\ tablesFrame

\* part_001 renderError
renderError(r, q, message, status) ==
  Respond(sessions, r, q, status, message, "", q.pc)

\* router.post("/delete-class/:id") (part_001:314-328) and
\* router.post("/classes/:id/delete") of the admin router
\* (student-dashboard.js:1250-1260) up to the first DELETE: only the
\* teacher's route looks the class up
DeleteClassStudents(r, out) ==
  /\ reqs[r].pc \in {"delete-class", "admin-delete-class"}
  /\ storeAnswers(out)
  /\ LET q == reqs[r]
         result == answer(out, deleteStudentsOfClass(Tables, paramId(q.in.path[3])))
     IN  IF out # "ok"
         THEN RespondError(r, q, out) /\ tablesFrame
         ELSE IF q.pc = "delete-class" /\ ~loadClassForTeacher(q.in.path[3], q.user.id)
         THEN renderError(r, q, "Klasse nicht gefunden.", 404) /\ tablesFrame
         ELSE IF result.err # ""
         THEN RespondError(r, q, result.err) /\ tablesFrame
         ELSE Commit(result.db) /\ Continue(r, q, "delete-class-row")
  /\ authFrame
  /\ UNCHANGED <<serial, files, nextFile>>

\* DELETE FROM classes WHERE id = ?, then the redirect
DeleteClassRow(r, out) ==
  /\ reqs[r].pc = "delete-class-row"
  /\ storeAnswers(out)
  /\ LET q == reqs[r]
         result == answer(out, deleteClass(Tables, paramId(q.in.path[3])))
     IN  IF result.err # ""
         THEN RespondError(r, q, result.err) /\ tablesFrame
         ELSE /\ Commit(result.db)
              /\ Respond(sessions, r, q, 302, "",
                         IF q.in.path[1] = "teacher" THEN "/teacher/classes"
                         ELSE "/admin/classes",
                         routeOf(q.in.path))
  /\ authFrame
  /\ UNCHANGED <<serial, files, nextFile>>

\* router.post("/classes/:classId/students/:studentId/delete") of the admin
\* router (student-dashboard.js:1318-1338) up to its first DELETE
AdminDeleteNotifications(r, out) ==
  /\ reqs[r].pc = "admin-delete-student"
  /\ storeAnswers(out)
  /\ LET q == reqs[r]
         result == answer(out, deleteNotificationsOfStudent(Tables, paramId(q.in.path[5])))
     IN  IF out # "ok"
         THEN RespondError(r, q, out) /\ tablesFrame
         ELSE IF ~\E c \in classes : c.id = paramId(q.in.path[3])
         THEN renderError(r, q, "Klasse nicht gefunden.", 404) /\ tablesFrame
         ELSE Commit(result.db) /\ Continue(r, q, "admin-delete-student-row")
  /\ authFrame
  /\ UNCHANGED <<serial, files, nextFile>>

\* router.post("/delete-student/:classId/:studentId") (part_001:429-443),
\* and the second DELETE of the admin's route
DeleteStudentRow(r, out) ==
  /\ reqs[r].pc \in {"delete-student", "admin-delete-student-row"}
  /\ storeAnswers(out)
  /\ LET q == reqs[r]
         teacher == q.pc = "delete-student"
         studentId == paramId(q.in.path[IF teacher THEN 4 ELSE 5])
         result == answer(out, deleteStudent(Tables, studentId, paramId(q.in.path[3])))
     IN  IF out # "ok"
         THEN RespondError(r, q, out) /\ tablesFrame
         ELSE IF teacher /\ ~loadClassForTeacher(q.in.path[3], q.user.id)
         THEN renderError(r, q, "Klasse nicht gefunden.", 404) /\ tablesFrame
         ELSE IF result.err # ""
         THEN RespondError(r, q, result.err) /\ tablesFrame
         ELSE /\ Commit(result.db)
              /\ Respond(sessions, r, q, 302, "",
                         IF teacher THEN "/teacher/students" ELSE "/admin/classes/students",
                         routeOf(q.in.path))
  /\ authFrame
  /\ UNCHANGED <<serial, files, nextFile>>

\* part_001 removeStoredAttachment: unlink of the grade's file, if it has one
removeStoredAttachment(onDisk, attachmentPath) ==
  IF attachmentPath = 0 THEN onDisk ELSE onDisk \ {attachmentPath}

\* getAsync("SELECT attachment_path FROM grades WHERE id = ? AND class_id = ?")
\* (createFakeDb: db.js:368-373): the rows found
gradesById(id, classId) == {g \in grades : g.id = id /\ g.class_id = classId}

attachmentOf(rows) == IF rows = {} THEN 0 ELSE (CHOOSE g \in rows : TRUE).attachment_path

\* router.post("/delete-grade/:classId/:gradeId") (part_001:532-552)
DeleteGrade(r, out) ==
  /\ reqs[r].pc = "delete-grade"
  /\ storeAnswers(out)
  /\ LET q == reqs[r]
         classId == paramId(q.in.path[3])
         gradeRows == gradesById(paramId(q.in.path[4]), classId)
         result == answer(out, deleteGrade(Tables, paramId(q.in.path[4]), classId))
     IN  IF out # "ok"
         THEN RespondError(r, q, out) /\ tablesFrame /\ UNCHANGED files
         ELSE IF ~loadClassForTeacher(q.in.path[3], q.user.id)
         THEN /\ renderError(r, q, "Klasse nicht gefunden.", 404)
              /\ tablesFrame /\ UNCHANGED files
         ELSE /\ Commit(result.db)
              /\ files' = removeStoredAttachment(files, attachmentOf(gradeRows))
              /\ Respond(sessions, r, q, 302, "", "/teacher/grades", q.pc)
  /\ authFrame
  /\ UNCHANGED <<serial, nextFile>>

\* router.post("/delete-grade-attachment/:classId/:gradeId") (part_001:554-582)
DeleteGradeAttachment(r, out) ==
  /\ reqs[r].pc = "delete-grade-attachment"
  /\ storeAnswers(out)
  /\ LET q == reqs[r]
         classId == paramId(q.in.path[3])
         gradeRows == gradesById(paramId(q.in.path[4]), classId)
         result == answer(out, clearAttachment(Tables, paramId(q.in.path[4]), classId))
     IN  IF out # "ok"
         THEN RespondError(r, q, out) /\ tablesFrame /\ UNCHANGED files
         ELSE IF ~loadClassForTeacher(q.in.path[3], q.user.id)
         THEN /\ renderError(r, q, "Klasse nicht gefunden.", 404)
              /\ tablesFrame /\ UNCHANGED files
         ELSE IF gradeRows = {}
         THEN /\ renderError(r, q, "Note nicht gefunden.", 404)
              /\ tablesFrame /\ UNCHANGED files
         ELSE /\ Commit(result.db)
              /\ files' = removeStoredAttachment(files, attachmentOf(gradeRows))
              /\ Respond(sessions, r, q, 302, "", "/teacher/grades", q.pc)
  /\ authFrame
  /\ UNCHANGED <<serial, nextFile>>

\* router.post("/delete-template/:classId/:templateId") (part_001:834-856)
DeleteTemplate(r, out) ==
  /\ reqs[r].pc = "delete-template"
  /\ storeAnswers(out)
  /\ LET q == reqs[r]
         result == answer(out, deleteTemplate(Tables, paramId(q.in.path[4]),
                                             paramId(q.in.path[3])))
     IN  IF out # "ok"
         THEN RespondError(r, q, out) /\ tablesFrame
         ELSE IF ~loadClassForTeacher(q.in.path[3], q.user.id)
         THEN renderError(r, q, "Klasse nicht gefunden.", 404) /\ tablesFrame
         ELSE IF ~templateInClass(q.in.path[4], q.in.path[3])
         THEN renderError(r, q, "Pruefung nicht gefunden.", 404) /\ tablesFrame
         ELSE /\ Commit(result.db)
              /\ Respond(sessions, r, q, 302, "", "/teacher/grade-templates", q.pc)
  /\ authFrame
  /\ UNCHANGED <<serial, files, nextFile>>

\* part_001:58
SPECIAL_ASSESSMENT_TYPES == {"Praesentation", "Wunschpruefung", "Benutzerdefiniert"}


\* the row of INSERT INTO special_assessments (part_001:996-1007)
specialRow(q) ==
  [id |-> serial.special_assessments,
   student_id |-> paramId(q.in.student_id),
   class_id |-> paramId(q.in.path[3]),
   type |-> q.in.type,
   weight |-> Number(q.in.weight),
   grade |-> Number(q.in.grade)]


\* INSERT INTO special_assessments: createFakeDb pushes the row
\* (db.js:233-247); PostgreSQL checks the references, the type and the
\* ranges of weight and grade (db.js:1020-1032)
insertSpecial(db, row) ==
  IF isFakeDb
  THEN Done([db EXCEPT !.special_assessments = @ \cup {row}])
  ELSE IF \/ ~\E st \in db.students : st.id = row.student_id
          \/ ~\E c \in db.classes : c.id = row.class_id
       THEN Failed(ErrForeignKey, db)
       ELSE IF \/ row.type \notin SPECIAL_ASSESSMENT_TYPES
               \/ ~inRange(row.weight, 0, 100)
               \/ ~inRange(row.grade, 1, 5)
            THEN Failed(ErrCheck, db)
            ELSE Done([db EXCEPT !.special_assessments = @ \cup {row}])

\* DELETE FROM special_assessments WHERE id = ? AND class_id = ? (db.js:248-257)
deleteSpecial(db, id, classId) ==
  Done([db EXCEPT
          !.special_assessments = {a \in @ : ~(a.id = id /\ a.class_id = classId)}])

\* part_001:892-995, the checks of the handler; "" is no error
specialError(q) ==
  LET weightValue == Number(q.in.weight)
      gradeValue == Number(q.in.grade)
      selectedStudent == studentInClass(q.in.path[3], q.in.student_id)
      isTypeValid == q.in.type \in SPECIAL_ASSESSMENT_TYPES
      resolvedName ==
        IF q.in.name # "" THEN q.in.name
        ELSE IF q.in.type # "" /\ q.in.type # "Benutzerdefiniert"
             THEN q.in.type ELSE ""
  IN  IF \/ ~selectedStudent \/ ~isTypeValid
         \/ ~isFinite(weightValue) \/ ~isFinite(gradeValue)
      THEN "Bitte alle Pflichtfelder korrekt ausfuellen."
      ELSE IF q.in.type = "Benutzerdefiniert" /\ resolvedName = ""
      THEN "Bitte eine Bezeichnung fuer die benutzerdefinierte Sonderleistung angeben."
      ELSE IF lessThan(weightValue, 0) \/ greaterThan(weightValue, 100)
      THEN "Gewichtung muss zwischen 0 und 100 liegen."
      ELSE IF lessThan(gradeValue, 1) \/ greaterThan(gradeValue, 5)
      THEN "Note muss zwischen 1 und 5 liegen."
      ELSE ""

\* router.post("/special-assessments/:classId") (part_001:892-1007) up to
\* the INSERT INTO special_assessments
PostSpecialAssessment(r, out) ==
  /\ reqs[r].pc = "special-assessments"
  /\ storeAnswers(out)
  /\ LET q == reqs[r]
         result == answer(out, insertSpecial(Tables, specialRow(q)))
     IN  /\ (out = "ok" /\ loadClassForTeacher(q.in.path[3], q.user.id)
               /\ specialError(q) = "" /\ result.err = "")
              => serial.special_assessments <= MaxGrade
         /\ IF out # "ok"
            THEN RespondError(r, q, out) /\ tablesFrame /\ UNCHANGED serial
            ELSE IF ~loadClassForTeacher(q.in.path[3], q.user.id)
            THEN /\ renderError(r, q, "Klasse nicht gefunden.", 404)
                 /\ tablesFrame /\ UNCHANGED serial
            ELSE IF specialError(q) # ""
            THEN /\ renderError(r, q, specialError(q), 400)
                 /\ tablesFrame /\ UNCHANGED serial
            ELSE IF result.err # ""
            THEN RespondError(r, q, result.err) /\ tablesFrame /\ UNCHANGED serial
            ELSE /\ Commit(result.db)
                 /\ serial' = [serial EXCEPT !.special_assessments = @ + 1]
                 /\ Continue(r, q, "special-notify")
  /\ authFrame
  /\ UNCHANGED <<files, nextFile>>

\* part_001:1008-1016: INSERT INTO grade_notifications, then the redirect
SpecialNotify(r, out) ==
  /\ reqs[r].pc = "special-notify"
  /\ storeAnswers(out)
  /\ LET q == reqs[r]
     IN  IF out # "ok"
         THEN RespondError(r, q, out) /\ tablesFrame /\ UNCHANGED serial
         ELSE /\ grade_notifications' = grade_notifications \cup
                   {notificationRow(paramId(q.in.student_id))}
              /\ serial' = [serial EXCEPT !.grade_notifications = @ + 1]
              /\ Respond(sessions, r, q, 302, "", "/teacher/special-assessments",
                         "special-assessments")
              /\ UNCHANGED <<classes, students, grade_templates, grades,
                             special_assessments>>
  /\ authFrame
  /\ UNCHANGED <<files, nextFile>>

\* router.post("/delete-special-assessment/:classId/:assessmentId")
\* (part_001:1021-1044)
DeleteSpecialAssessment(r, out) ==
  /\ reqs[r].pc = "delete-special-assessment"
  /\ storeAnswers(out)
  /\ LET q == reqs[r]
         id == paramId(q.in.path[4])
         classId == paramId(q.in.path[3])
         result == answer(out, deleteSpecial(Tables, id, classId))
     IN  IF out # "ok"
         THEN RespondError(r, q, out) /\ tablesFrame
         ELSE IF ~loadClassForTeacher(q.in.path[3], q.user.id)
         THEN renderError(r, q, "Klasse nicht gefunden.", 404) /\ tablesFrame
         ELSE IF ~\E a \in special_assessments : a.id = id /\ a.class_id = classId
         THEN renderError(r, q, "Sonderleistung nicht gefunden.", 404) /\ tablesFrame
         ELSE /\ Commit(result.db)
              /\ Respond(sessions, r, q, 302, "", "/teacher/special-assessments", q.pc)
  /\ authFrame
  /\ UNCHANGED <<serial, files, nextFile>>

\* ------------------------------------------------ the student's notifications
\* loadStudentProfile (student.js:42-47): the rows of
\* SELECT s.* ... FROM students s JOIN classes c ... WHERE s.email = ?
studentProfiles(email) ==
  {st \in students : st.email = email /\ \E c \in classes : c.id = st.class_id}

\* router.post("/notifications/:id/read") (student.js:520-523), the first
\* query of getStudentContext (student.js:267-269)
MarkReadProfile(r, out) ==
  /\ reqs[r].pc = "mark-read"
  /\ storeAnswers(out)
  /\ LET q == reqs[r]
         rows == studentProfiles(q.user.email)
     IN  IF out # "ok"
         THEN RespondError(r, q, out)
         ELSE IF rows = {}
         THEN Respond(sessions, r, q, 404, "Student nicht gefunden.", "", "mark-read")
         ELSE \E st \in rows :
                /\ reqs' = [reqs EXCEPT ![r] =
                     [q EXCEPT !.pc = "mark-read-class", !.student = st.id]]
                /\ UNCHANGED <<sessions, response>>
  /\ authFrame
  /\ tablesFrame
  /\ UNCHANGED <<serial, files, nextFile>>

\* !id of id = Number(req.params.id) (student.js:526-529)
isFalsy(x) == x = NaN \/ x = Finite(0)

\* loadClassInfo, the second query of getStudentContext (student.js:270-271),
\* and the check of the id (student.js:526-530)
MarkReadClass(r, out) ==
  /\ reqs[r].pc = "mark-read-class"
  /\ storeAnswers(out)
  /\ LET q == reqs[r]
         id == Number(q.in.path[3])
     IN  IF out # "ok"
         THEN RespondError(r, q, out)
         ELSE IF isFalsy(id)
         THEN Respond(sessions, r, q, 400, "Ungueltige ID.", "", "mark-read")
         ELSE Continue(r, q, "mark-read-update")
  /\ authFrame
  /\ tablesFrame
  /\ UNCHANGED <<serial, files, nextFile>>

\* UPDATE grade_notifications SET read_at = current_timestamp
\* WHERE id = ? AND student_id = ? (student.js:532-535; createFakeDb:
\* db.js:270-274); read_at 0 is NULL, and the timestamps of the model are
\* the clock's values plus one
markRead(rows, id, studentId, timestamp) ==
  {IF n.id = id /\ n.student_id = studentId
   THEN [n EXCEPT !.read_at = timestamp] ELSE n : n \in rows}

\* student.js:532-536: the UPDATE and res.json({ ok: true })
MarkReadUpdate(r, out) ==
  /\ reqs[r].pc = "mark-read-update"
  /\ storeAnswers(out)
  /\ LET q == reqs[r]
         id == Number(q.in.path[3])
     IN  IF out # "ok"
         THEN RespondError(r, q, out) /\ UNCHANGED grade_notifications
         ELSE IF ~isFinite(id) /\ ~isFakeDb
         THEN RespondError(r, q, "other") /\ UNCHANGED grade_notifications
         ELSE /\ grade_notifications' =
                   IF isFinite(id)
                   THEN markRead(grade_notifications, id.v, q.student, now + 1)
                   ELSE grade_notifications
              /\ Respond(sessions, r, q, 200, "ok", "", "mark-read")
  /\ authFrame
  /\ UNCHANGED <<classes, students, grade_templates, grades, special_assessments>>
  /\ UNCHANGED <<serial, files, nextFile>>

\* ------------------------------------------------------------- the averages
\* The values of a row's columns: a number (in hundredths: h = 150 is 1.5),
\* NaN, a string, or null.  PostgreSQL hands NUMERIC columns over as strings,
\* createFakeDb as numbers.  Sums and quotients are exact here; the
\* program's are IEEE doubles.
Null == [t |-> "null", h |-> 0, s |-> ""]
Num(h) == [t |-> "number", h |-> h, s |-> ""]
NotANumber == [t |-> "NaN", h |-> 0, s |-> ""]
Str(s) == [t |-> "string", h |-> 0, s |-> s]

\* Number(x) on these values
toNumber(x) ==
  CASE x.t = "null" -> Num(0)
    [] x.t \in {"number", "NaN"} -> x
    [] x.t = "string" ->
         CASE x.s \in {"", "0"} -> Num(0)
           [] x.s = "1.5" -> Num(150)
           [] x.s = "3" -> Num(300)
           [] x.s = "40" -> Num(4000)
           [] x.s = "60" -> Num(6000)
           [] OTHER -> NotANumber

\* x || d
falsy(x) == x.t \in {"null", "NaN"} \/ x = Num(0) \/ x = Str("")
orElse(x, d) == IF falsy(x) THEN d ELSE x

\* student.js:102-122 mapGradeRow, the fields the averages read
mapGradeRow(row, classInfo) ==
  [value |-> toNumber(row.grade),
   weight |-> toNumber(orElse(row.weight, Num(100))),
   subject |-> IF row.class_subject # "" THEN row.class_subject
               ELSE IF classInfo.subject # "" THEN classInfo.subject
               ELSE IF row.name # "" THEN row.name
               ELSE "Fach"]

\* Number((weightedSum / weightTotal).toFixed(2)), weightedSum in units of
\* 1/10000 and weightTotal in hundredths: the nearest hundredth, the larger
\* one of two that are equally near
toFixed2(weightedSum, weightTotal) ==
  Num((2 * weightedSum + weightTotal) \div (2 * weightTotal))

\* weightTotal ? Number((weightedSum / weightTotal).toFixed(2)) : null
quotientOrNull(weightedSum, weightTotal) ==
  IF weightTotal # 0 THEN toFixed2(weightedSum, weightTotal) ELSE Null

\* the sums of a forEach loop over entries [value, weight] that skips the
\* entries with a NaN
loopSums(entries) ==
  LET sums[i \in 0..Len(entries)] ==
        IF i = 0 THEN [weightedSum |-> 0, weightTotal |-> 0]
        ELSE IF entries[i].value.t = "NaN" \/ entries[i].weight.t = "NaN"
        THEN sums[i - 1]
        ELSE [weightedSum |-> sums[i - 1].weightedSum
                                + entries[i].value.h * entries[i].weight.h,
              weightTotal |-> sums[i - 1].weightTotal + entries[i].weight.h]
  IN  sums[Len(entries)]

\* student.js:162-188 computeAverages
computeAverages(gradeList) ==
  LET entry(grade) ==
        [value |-> grade.value,
         weight |-> toNumber(orElse(grade.weight, Num(100))),
         subject |-> grade.subject]
      entries == [i \in 1..Len(gradeList) |-> entry(gradeList[i])]
      counted(e) == e.value.t # "NaN" /\ e.weight.t # "NaN"
      subjectMap == {entries[i].subject : i \in {j \in 1..Len(entries) : counted(entries[j])}}
      bucket(subject) == loopSums(SelectSeq(entries, LAMBDA e : e.subject = subject))
      total == loopSums(entries)
  IN  [subjects |-> [subject \in subjectMap |->
                       quotientOrNull(bucket(subject).weightedSum,
                                      bucket(subject).weightTotal)],
       overall |-> quotientOrNull(total.weightedSum, total.weightTotal)]

\* part_001:257-270 computeWeightedAverage
computeWeightedAverage(gradeList) ==
  LET entries == [i \in 1..Len(gradeList) |->
                    [value |-> toNumber(gradeList[i].grade),
                     weight |-> toNumber(orElse(gradeList[i].weight, Num(100)))]]
      total == loopSums(entries)
  IN  quotientOrNull(total.weightedSum, total.weightTotal)

NoAverages == [subject \in {} |-> Null]
NoReport ==
  [view |-> "", rows |-> <<>>, subjects |-> NoAverages, overall |-> Null,
   body |-> <<>>]

reportFrame ==
  UNCHANGED <<users, sessions, nextSid, loginAttempts, now, reqs, response,
              classes, students, grade_templates, grades, grade_notifications,
              special_assessments, serial, isFakeDb, INITIAL_PASSWORD, files, nextFile, lockout,
              sinceSuccess, loggedOut>>

\* router.get("/") of the student router (student.js:284-293): the rows of
\* loadStudentGrades are mapped and averaged.  The rows are those of
\* report.rows.
StudentDashboard(classInfo) ==
  /\ report.view = ""
  /\ LET gradeRows == report.rows
         mapped == [i \in 1..Len(gradeRows) |-> mapGradeRow(gradeRows[i], classInfo)]
         averages == computeAverages(mapped)
     IN  report' = [report EXCEPT !.view = "student",
                                 !.subjects = averages.subjects,
                                 !.overall = averages.overall]
  /\ reportFrame

\* router.get("/student-grades/...") of the teacher router (part_001:517):
\* the rows of the student are averaged
TeacherStudentGrades ==
  /\ report.view = ""
  /\ report' = [report EXCEPT !.view = "teacher",
                              !.overall = computeWeightedAverage(report.rows)]
  /\ reportFrame

\* -------------------------------------------------------------- the exports
\* A string is the sequence of its characters.

\* guarded.replace(/"/g, '""')
RECURSIVE doubleQuotes(_)
doubleQuotes(text) ==
  IF text = <<>> THEN <<>>
  ELSE (IF Head(text) = "\"" THEN <<"\"", "\"">> ELSE <<Head(text)>>)
         \o doubleQuotes(Tail(text))

\* student.js:206-213 escapeCsv, on a value that is a string
escapeCsv_KeepsCarriageReturn(value) ==
  LET stringValue == value
      guarded == IF stringValue # <<>> /\ stringValue[1] \in {"=", "+", "-", "@", "\t"}
                 THEN <<"'">> \o stringValue ELSE stringValue
  IN  IF \E i \in 1..Len(guarded) : guarded[i] \in {"\"", ",", "\n"}
      THEN <<"\"">> \o doubleQuotes(guarded) \o <<"\"">>
      ELSE guarded

escapeCsv(value) ==
  LET stringValue == value
      guarded == IF stringValue # <<>>
                      /\ stringValue[1] \in {"=", "+", "-", "@", "\t", "\r"}
                 THEN <<"'">> \o stringValue ELSE stringValue
  IN  IF \E i \in 1..Len(guarded) : guarded[i] \in {"\"", ",", "\n"}
      THEN <<"\"">> \o doubleQuotes(guarded) \o <<"\"">>
      ELSE guarded

\* router.get("/grades.csv") (student.js:542-576): row.map(escapeCsv) on the
\* fields of report.rows
GradesCsv ==
  /\ report.view = ""
  /\ report' = [report EXCEPT
                  !.view = "csv",
                  !.body = [i \in 1..Len(report.rows) |-> escapeCsv(report.rows[i])]]
  /\ reportFrame

\* student-dashboard.js:24-26 normalizeGrade, on a grade of the JSON answer
normalizeGrade(grade) ==
  [value |-> toNumber(grade.value),
   weight |-> toNumber(orElse(grade.weight, Num(100))),
   subject |-> grade.subject]

\* the reduce over the subjects (student-dashboard.js:155-165): the rounded
\* average of each subject times the subject's weight
RECURSIVE reduceSubjects(_, _)
reduceSubjects(subjects, bucket) ==
  IF subjects = {} THEN [weightedSum |-> 0, weightTotal |-> 0]
  ELSE LET subject == CHOOSE x \in subjects : TRUE
           acc == reduceSubjects(subjects \ {subject}, bucket)
           average == quotientOrNull(bucket[subject].weightedSum,
                                     bucket[subject].weightTotal)
       IN  IF average = Null THEN acc
           ELSE [weightedSum |-> acc.weightedSum
                                   + average.h * bucket[subject].weightTotal,
                 weightTotal |-> acc.weightTotal + bucket[subject].weightTotal]

\* student-dashboard.js:142-169 computeAveragesClient, on grades whose value
\* and weight are numbers
computeAveragesClient(gradeList) ==
  LET weightOf(grade) == orElse(grade.weight, Num(100))
      subjectMap == {gradeList[i].subject : i \in 1..Len(gradeList)}
      sums(subject) ==
        LET own == SelectSeq(gradeList, LAMBDA g : g.subject = subject)
            partial[i \in 0..Len(own)] ==
              IF i = 0 THEN [weightedSum |-> 0, weightTotal |-> 0]
              ELSE [weightedSum |-> partial[i - 1].weightedSum
                                      + own[i].value.h * weightOf(own[i]).h,
                    weightTotal |-> partial[i - 1].weightTotal + weightOf(own[i]).h]
        IN  partial[Len(own)]
      bucket == [subject \in subjectMap |-> sums(subject)]
      total == reduceSubjects(subjectMap, bucket)
  IN  [subjects |-> [subject \in subjectMap |->
                       quotientOrNull(bucket[subject].weightedSum,
                                      bucket[subject].weightTotal)],
       overall |-> quotientOrNull(total.weightedSum, total.weightTotal)]

\* GET /student/grades (student.js:362-400) answers the grades and the
\* averages computeAverages gives for them; refreshGrades
\* (student-dashboard.js:491-507) normalises the grades and computes the
\* averages again with computeAveragesClient.  report.rows are the grades of
\* the answer.
RefreshGrades ==
  /\ report.view = ""
  /\ LET serverAverages == computeAverages(report.rows)
         stateGrades == [i \in 1..Len(report.rows) |-> normalizeGrade(report.rows[i])]
     IN  report' = [report EXCEPT !.view = "refresh",
                                 !.subjects = serverAverages.subjects,
                                 !.overall = serverAverages.overall,
                                 !.body = computeAveragesClient(stateGrades)]
  /\ reportFrame

\* The text of the PDF export is a sequence of pieces: a piece is a run of
\* ASCII characters, or one character outside ASCII, named "<ae>" (U+00E4:
\* one UTF-16 code unit, two bytes in UTF-8) or "<emoji>" (U+1F600: two code
\* units, four bytes).
codeUnits(piece) ==
  CASE piece = "<ae>" -> 1 [] piece = "<emoji>" -> 2 [] OTHER -> Len(piece)

utf8Bytes(piece) ==
  CASE piece = "<ae>" -> 2 [] piece = "<emoji>" -> 4 [] OTHER -> Len(piece)

\* text.length
RECURSIVE length(_)
length(text) ==
  IF text = <<>> THEN 0 ELSE codeUnits(Head(text)) + length(Tail(text))

\* Buffer.from(text, "utf8").length (student.js:612)
RECURSIVE byteLength(_)
byteLength(text) ==
  IF text = <<>> THEN 0 ELSE utf8Bytes(Head(text)) + byteLength(Tail(text))

\* student.js:215-221 sanitizePdfText: the replacements of one piece of a
\* line (a single character, or a run of letters)
sanitizePiece_KeepsNonAscii(piece) ==
  CASE piece = "\\" -> "\\\\"
    [] piece = "(" -> "\\("
    [] piece = ")" -> "\\)"
    [] piece = "\n" -> "?"
    [] OTHER -> piece

sanitizePiece(piece) ==
  CASE piece = "\\" -> "\\\\"
    [] piece = "(" -> "\\("
    [] piece = ")" -> "\\)"
    [] piece \in {"\n", "<ae>"} -> "?"
    [] piece = "<emoji>" -> "??"
    [] OTHER -> piece

sanitizePdfText(value) == [i \in 1..Len(value) |-> sanitizePiece(value[i])]

\* contentLines.join("\n") (student.js:224-235) from the line at index on
RECURSIVE textLines(_, _)
textLines(safeLines, index) ==
  IF index > Len(safeLines) THEN <<>>
  ELSE <<"(">> \o safeLines[index] \o <<") Tj\n">>
         \o (IF index < Len(safeLines) THEN <<"T*\n">> ELSE <<>>)
         \o textLines(safeLines, index + 1)

\* student.js:223-265 buildPdf: the header, the objects, the offsets of the
\* cross-reference table, the offset after startxref
buildPdf(lines) ==
  LET safeLines == [i \in 1..Len(lines) |-> sanitizePdfText(lines[i])]
      content == <<"BT\n/F1 12 Tf\n14 TL\n72 760 Td\n">> \o textLines(safeLines, 1)
                   \o <<"ET">>
      objects ==
        << <<"1 0 obj\n<< /Type /Catalog /Pages 2 0 R >>\nendobj\n">>,
           <<"2 0 obj\n<< /Type /Pages /Kids [3 0 R] /Count 1 >>\nendobj\n">>,
           <<"3 0 obj\n<< /Type /Page /Parent 2 0 R /MediaBox [0 0 612 792] /Contents 4 0 R /Resources << /Font << /F1 5 0 R >> >> >>\nendobj\n">>,
           <<"4 0 obj\n<< /Length ", ToString(length(content)), " >>\nstream\n">>
             \o content \o <<"\nendstream\nendobj\n">>,
           <<"5 0 obj\n<< /Type /Font /Subtype /Type1 /BaseFont /Helvetica >>\nendobj\n">> >>
      header == <<"%PDF-1.4\n">>
      currentOffset[i \in 0..Len(objects)] ==
        IF i = 0 THEN length(header) ELSE currentOffset[i - 1] + length(objects[i])
  IN  [header |-> header,
       objects |-> objects,
       content |-> content,
       declaredLength |-> length(content),
       offsets |-> [i \in 1..Len(objects) |-> currentOffset[i - 1]],
       xrefOffset |-> currentOffset[Len(objects)]]

\* router.get("/grades.pdf") (student.js:578-617): buildPdf on the lines of
\* report.rows
GradesPdf ==
  /\ report.view = ""
  /\ report' = [report EXCEPT !.view = "pdf", !.body = buildPdf(report.rows)]
  /\ reportFrame

\* ---------------------------------------------------------------- the clock
Tick ==
  /\ UNCHANGED <<report, isFakeDb, INITIAL_PASSWORD, special_assessments, serial>>
  /\ now < MaxTime
  /\ now' = now + 1
  /\ UNCHANGED <<users, sessions, nextSid, loginAttempts, reqs, response,
                 lockout, sinceSuccess, loggedOut>>
  /\ UNCHANGED tableVars


\* ------------------------------------------------------------ initial state
\* The accounts: an administrator and a student who have changed their
\* initial passwords (the student's account is locked) and a
\* teacher who still has the initial password (db.js seeds, admin router
\* INITIAL_PASSWORD: must_change_password = 1).
Account(id, email, role, status, must) ==
  [id |-> id, email |-> email, password_hash |-> hashPassword(PwInit),
   role |-> role, status |-> status, must_change_password |-> must]

UsersInit(studentStatus) ==
  [u \in UserId |->
     CASE u = 1 -> Account(1, "a@x", "admin", "active", FALSE)
       [] u = 2 -> Account(2, "t@x", "teacher", "active", TRUE)
       [] u = 3 -> Account(3, "s@x", "student", studentStatus, FALSE)
       [] OTHER -> Account(4, "u@x", "teacher", "active", FALSE)]

InitTables ==
  /\ classes = {[id |-> 1, teacher_id |-> 2]}
  /\ students = {[id |-> 1, class_id |-> 1, email |-> "s@x"]}
  /\ grade_templates = {[id |-> 1, class_id |-> 1]}
  /\ grades = {}
  /\ grade_notifications = {}
  /\ special_assessments = {}
  /\ serial = [grades |-> 1, special_assessments |-> 1, grade_notifications |-> 1]
  /\ files = {}
  /\ nextFile = 1

Init ==
  /\ users = UsersInit("locked")
  /\ sessions = [s \in Sid |-> NoSession]
  /\ nextSid = 1
  /\ loginAttempts = [k \in LoginKey |-> NoEntry]
  /\ now = 0
  /\ reqs = [r \in Req |-> Idle]
  /\ response = NoResponse
  /\ lockout = [k \in LoginKey |-> NoWindow]
  /\ sinceSuccess = [k \in LoginKey |-> -1]
  /\ loggedOut = {}
  /\ isFakeDb = FALSE
  /\ INITIAL_PASSWORD = PwInit
  /\ report = NoReport
  /\ InitTables

\* ------------------------------------------------------------- the requests
Cookies == 0..MaxSid

PlainRequests(methods, paths) ==
  {[BlankInput EXCEPT !.method = m, !.path = p, !.cookie = c, !.csrfOk = k] :
     m \in methods, p \in paths, c \in Cookies,
     k \in IF methods = {"GET"} THEN {FALSE} ELSE BOOLEAN}

LoginRequests(emails, passwords) ==
  {[BlankInput EXCEPT !.method = "POST", !.path = PathLogin, !.cookie = c,
                      !.csrfOk = k, !.email = e, !.password = pw] :
     e \in emails, pw \in passwords, c \in Cookies, k \in BOOLEAN}

ForcePwRequests(passwords) ==
  {[BlankInput EXCEPT !.method = "POST", !.path = PathForce, !.cookie = c,
                      !.csrfOk = k, !.newPassword = pw] :
     pw \in passwords, c \in Cookies, k \in BOOLEAN}

PagePaths ==
  {PathRoot, PathLogin, PathForce, <<"admin">>, <<"teacher", "classes">>,
   <<"student", "grades">>, <<"nowhere">>}

DeletePaths == {<<"admin", "users", "2", "delete">>}

InputsSpec ==
  PlainRequests({"GET"}, PagePaths \cup {PathLogout} \cup DeletePaths)
    \cup PlainRequests({"POST"}, (PagePaths \ {PathLogin, PathForce})
                                   \cup {PathLogout} \cup DeletePaths)
    \cup LoginRequests({"a@x", "t@x"}, {PwInit})
    \cup ForcePwRequests({PwGood, PwShort, PwLetters, PwNumbers, Undefined})

InputsLogin ==
  PlainRequests({"GET"}, {PathLogin})
    \cup LoginRequests({"a@x", "A@x"}, {PwInit, Undefined})

\* --------------------------------------------------------- specifications
Next ==
  \/ \E r \in Req, in \in InputsSpec :
       \/ ArriveRejected(r, in)
       \/ RouterRejected(r, in)
       \/ ServePage(r, in)
       \/ PostLogin(r, in)
       \/ PostForcePw(r, in)
       \/ PostLogout(r, in)
       \/ AdminDeleteUser(r, in)
  \/ \E r \in Req, out \in DbOutcome :
       \/ LoginDbResult(r, out)
       \/ ForcePwDbResult(r, out)
       \/ AdminDeleteDbResult(r, out)
  \/ \E r \in Req :
       \/ LoginRegenerated(r)
       \/ LoginSaved(r)
       \/ LogoutDestroyed(r)

Spec == Init /\ [][Next]_vars

NextLogin ==
  \/ \E r \in Req, in \in InputsLogin :
       \/ ArriveRejected(r, in)
       \/ ServePage(r, in)
       \/ PostLogin(r, in)
  \/ \E r \in Req, out \in DbOutcome : LoginDbResult(r, out)
  \/ \E r \in Req : LoginRegenerated(r) \/ LoginSaved(r)
  \/ Tick

SpecLogin == Init /\ [][NextLogin]_vars


\* the credential and status checks alone: the student's account is locked
\* or deleted; the requests are logins with the right password, a wrong
\* password and an e-mail address no account has
InitAccounts ==
  /\ users \in {UsersInit(st) : st \in {"locked", "deleted"}}
  /\ sessions = [s \in Sid |-> NoSession]
  /\ nextSid = 1
  /\ loginAttempts = [k \in LoginKey |-> NoEntry]
  /\ now = 0
  /\ reqs = [r \in Req |-> Idle]
  /\ response = NoResponse
  /\ lockout = [k \in LoginKey |-> NoWindow]
  /\ sinceSuccess = [k \in LoginKey |-> -1]
  /\ loggedOut = {}
  /\ isFakeDb = FALSE
  /\ INITIAL_PASSWORD = PwInit
  /\ report = NoReport
  /\ InitTables

InputsAccounts ==
  PlainRequests({"GET"}, {PathLogin})
    \cup LoginRequests({"s@x"}, {PwInit})
    \cup LoginRequests({"a@x"}, {PwGood})
    \cup LoginRequests({"A@x"}, {PwInit})

NextAccounts ==
  \/ \E r \in Req, in \in InputsAccounts :
       \/ ServePage(r, in)
       \/ PostLogin(r, in)
  \/ \E r \in Req, out \in DbOutcome : LoginDbResult(r, out)

SpecAccounts == InitAccounts /\ [][NextAccounts]_vars

\* the upload route: the teacher has changed the initial password and is
\* logged in (session 1)
TeacherAccount ==
  [Account(2, "t@x", "teacher", "active", FALSE) EXCEPT
     !.password_hash = hashPassword(PwGood)]

InitUpload ==
  /\ users = [UsersInit("locked") EXCEPT ![2] = TeacherAccount]
  /\ sessions = [s \in Sid |->
       IF s = 1 THEN [present |-> TRUE, user |-> SessionUser(TeacherAccount)]
       ELSE NoSession]
  /\ nextSid = 2
  /\ loginAttempts = [k \in LoginKey |-> NoEntry]
  /\ now = 0
  /\ reqs = [r \in Req |-> Idle]
  /\ response = NoResponse
  /\ lockout = [k \in LoginKey |-> NoWindow]
  /\ sinceSuccess = [k \in LoginKey |-> -1]
  /\ loggedOut = {}
  /\ isFakeDb \in BOOLEAN
  /\ INITIAL_PASSWORD = PwInit
  /\ report = NoReport
  /\ InitTables

AddGradeBody(classId, studentId, template, grade, link, upload) ==
  [BlankInput EXCEPT !.method = "POST",
                     !.path = <<"teacher", "add-grade", classId, studentId>>,
                     !.multipart = TRUE, !.grade_template_id = template,
                     !.grade = grade, !.external_link = link, !.upload = upload]

\* a complete form with each kind of upload, and forms that fail one check
AddGradeBodies ==
  {AddGradeBody("1", "1", "1", "3", "", up) :
     up \in {"none", "ok", "badsig", "badtype", "toolarge"}}
  \cup {AddGradeBody(c, "1", "1", "3", "", up) : c \in {"2"}, up \in {"ok", "badtype"}}
  \cup {AddGradeBody("1", st, "1", "3", "", up) : st \in {"2"}, up \in {"ok", "badtype"}}
  \cup {AddGradeBody("1", "1", t, "3", "", "ok") : t \in {"", "2"}}
  \cup {AddGradeBody("1", "1", "1", g, "", "ok") : g \in {"9", "abc"}}
  \cup {AddGradeBody("1", "1", "1", "3", l, "ok") : l \in {"x", "ftp://x", "https://x"}}
  \cup {AddGradeBody("1", "1", "1", "3", "https://x", "none")}

MultipartPaths ==
  {<<"teacher", "classes">>, <<"teacher", "add-grade", "1", "x">>,
   <<"teacher", "add-grade", "1">>, PathLogin}

InputsUpload ==
  {[b EXCEPT !.cookie = c, !.csrfOk = k] :
     b \in AddGradeBodies, c \in {0, 1}, k \in BOOLEAN}
  \cup {[AddGradeBody("1", "1", "1", "3", "", "none") EXCEPT
           !.multipart = FALSE, !.cookie = 1, !.csrfOk = k] : k \in BOOLEAN}
  \cup {[BlankInput EXCEPT !.method = m, !.path = p, !.multipart = TRUE,
                           !.cookie = c, !.csrfOk = k] :
          m \in {"GET", "POST"}, p \in MultipartPaths, c \in {0, 1}, k \in {FALSE}}

\* the requests of this specification are processed one at a time
Uploader == {"r1"}

NextUpload ==
  \/ \E r \in Uploader, in \in InputsUpload :
       \/ ArriveRejected(r, in)
       \/ RouterRejected(r, in)
       \/ ServePage(r, in)
       \/ PostAddGrade(r, in)
  \/ \E r \in Uploader : HandleUpload(r)
  \/ \E r \in Uploader, out \in DbOutcome :
       \/ UploadFailed(r, out)
       \/ AddGradeLoad(r, out)
       \/ AddGradeTemplate(r, out)
       \/ AddGradeNotify(r, out)
  \/ \E r \in Uploader, out \in InsertOutcome : AddGradeInsert(r, out)

SpecUpload == InitUpload /\ [][NextUpload]_vars

\* The routes on classes and grades.  Two teachers have a class each; the
\* first teacher is logged in (session 1), and so is the second teacher or
\* the administrator (session 2).  With SEED_DEMO the store starts with a
\* grade and its notification (db.js seedDemoStudent / seedDemoData).
SeedGrade ==
  [id |-> 1, student_id |-> 1, class_id |-> 1, grade_template_id |-> 1,
   grade |-> Finite(3), attachment_path |-> 0, external_link |-> ""]

StoreUsers ==
  [u \in UserId |->
     IF u = 2 THEN TeacherAccount
     ELSE IF u = 3 THEN Account(3, "s@x", "student", "active", FALSE)
     ELSE UsersInit("active")[u]]

InitStore ==
  /\ users = StoreUsers
  /\ \E other \in {1, 4} :
       sessions = [s \in Sid |->
         [present |-> TRUE,
          user |-> SessionUser(StoreUsers[IF s = 1 THEN 2 ELSE other])]]
  /\ nextSid = MaxSid + 1
  /\ loginAttempts = [k \in LoginKey |-> NoEntry]
  /\ now = 0
  /\ reqs = [r \in Req |-> Idle]
  /\ response = NoResponse
  /\ lockout = [k \in LoginKey |-> NoWindow]
  /\ sinceSuccess = [k \in LoginKey |-> -1]
  /\ loggedOut = {}
  /\ isFakeDb \in BOOLEAN
  /\ INITIAL_PASSWORD = PwInit
  /\ report = NoReport
  /\ classes = {[id |-> 1, teacher_id |-> 2], [id |-> 2, teacher_id |-> 4]}
  /\ students = {[id |-> 1, class_id |-> 1, email |-> "s@x"],
                 [id |-> 2, class_id |-> 2, email |-> "s@x"]}
  /\ grade_templates = {[id |-> 1, class_id |-> 1], [id |-> 2, class_id |-> 2]}
  /\ special_assessments = {}
  /\ files = {}
  /\ nextFile = 1
  /\ \E seeded \in BOOLEAN :
       IF seeded
       THEN /\ grades = {SeedGrade}
            /\ grade_notifications = {[id |-> 1, student_id |-> 1, read_at |-> 0]}
            /\ serial = [grades |-> 2, special_assessments |-> 1,
                         grade_notifications |-> 2]
       ELSE /\ grades = {}
            /\ grade_notifications = {}
            /\ serial = [grades |-> 1, special_assessments |-> 1,
                         grade_notifications |-> 1]

StorePaths ==
  {<<"teacher", "delete-class", c>> : c \in {"1", "2"}}
    \cup {<<"admin", "classes", c, "delete">> : c \in {"1"}}
    \cup {<<"teacher", "delete-student", c, "1">> : c \in {"1", "2"}}
    \cup {<<"admin", "classes", c, "students", "1", "delete">> : c \in {"1", "3"}}
    \cup {<<"teacher", route, c, "1">> :
            route \in {"delete-grade", "delete-grade-attachment", "delete-template",
                       "delete-special-assessment"},
            c \in {"1", "2"}}
    \cup {<<"teacher", "delete-grade-attachment", "1", "2">>}

SpecialBody(classId, studentId, type, name, weight, grade) ==
  [BlankInput EXCEPT !.method = "POST",
                     !.path = <<"teacher", "special-assessments", classId>>,
                     !.student_id = studentId, !.type = type, !.name = name,
                     !.weight = weight, !.grade = grade]

\* a complete form, and forms that fail one check
SpecialBodies ==
  {SpecialBody(c, "1", "Praesentation", "", "50", "3") : c \in {"1", "2"}}
    \cup {SpecialBody("1", "1", "Praesentation", "", "50", g) :
            g \in {"", "0", "1", "5", "6", "abc", "Infinity"}}
    \cup {SpecialBody("1", "1", "Praesentation", "", w, "3") : w \in {"", "101", "abc"}}
    \cup {SpecialBody("1", "1", t, "", "50", "3") : t \in {"", "x", "Benutzerdefiniert"}}
    \cup {SpecialBody("1", "2", "Praesentation", "", "50", "3")}

InputsStore ==
  {[BlankInput EXCEPT !.method = "POST", !.path = p, !.cookie = c, !.csrfOk = k] :
     p \in StorePaths, c \in {1, 2}, k \in {TRUE}}
    \cup {[SpecialBody(c, "1", "Praesentation", "", "50", "3") EXCEPT
             !.cookie = 1, !.csrfOk = TRUE] : c \in {"1", "2"}}
    \cup {[BlankInput EXCEPT !.method = "POST",
                             !.path = <<"teacher", "delete-class", "1">>,
                             !.cookie = 1]}

NextStore ==
  \/ \E r \in Uploader, in \in InputsStore :
       \/ ArriveRejected(r, in)
       \/ RouterRejected(r, in)
       \/ PostRoute(r, in)
  \/ \E r \in Uploader, out \in InsertOutcome :
       \/ DeleteClassStudents(r, out)
       \/ DeleteClassRow(r, out)
       \/ AdminDeleteNotifications(r, out)
       \/ DeleteStudentRow(r, out)
       \/ DeleteGrade(r, out)
       \/ DeleteGradeAttachment(r, out)
       \/ DeleteTemplate(r, out)
       \/ PostSpecialAssessment(r, out)
       \/ SpecialNotify(r, out)
       \/ DeleteSpecialAssessment(r, out)

SpecStore == InitStore /\ [][NextStore]_vars

\* Grades with an attachment or a link: the owner of class 1 adds grades for
\* student 1, removes attachments and deletes grades
InputsAttach ==
  {[AddGradeBody("1", "1", "1", "3", l, up) EXCEPT !.cookie = 1, !.csrfOk = TRUE] :
     l \in {"", "https://x", "ftp://x"}, up \in {"none", "ok"}}
    \cup {[BlankInput EXCEPT !.method = "POST", !.path = <<"teacher", route, "1", g>>,
                             !.cookie = 1, !.csrfOk = TRUE] :
            route \in {"delete-grade", "delete-grade-attachment"}, g \in {"1", "2"}}

NextAttach ==
  \/ \E r \in Uploader, in \in InputsAttach :
       \/ PostRoute(r, in)
       \/ PostAddGrade(r, in)
  \/ \E r \in Uploader : HandleUpload(r)
  \/ \E r \in Uploader, out \in InsertOutcome :
       \/ AddGradeLoad(r, out)
       \/ AddGradeTemplate(r, out)
       \/ AddGradeInsert(r, out)
       \/ AddGradeNotify(r, out)
       \/ DeleteGrade(r, out)
       \/ DeleteGradeAttachment(r, out)

SpecAttach == InitStore /\ [][NextAttach]_vars

\* Values of grades and special assessments: the owner of class 1 submits
\* add-grade and special-assessment forms with values in and out of range
InputsValues ==
  {[b EXCEPT !.cookie = 1, !.csrfOk = TRUE] : b \in SpecialBodies}
    \cup {[AddGradeBody("1", "1", "1", g, "", "none") EXCEPT
             !.cookie = 1, !.csrfOk = TRUE] :
            g \in {"", "0", "1", "3", "5", "6", "abc", "Infinity"}}

NextValues ==
  \/ \E r \in Uploader, in \in InputsValues :
       \/ PostRoute(r, in)
       \/ PostAddGrade(r, in)
  \/ \E r \in Uploader : HandleUpload(r)
  \/ \E r \in Uploader, out \in InsertOutcome :
       \/ AddGradeLoad(r, out)
       \/ AddGradeTemplate(r, out)
       \/ AddGradeInsert(r, out)
       \/ AddGradeNotify(r, out)
       \/ PostSpecialAssessment(r, out)
       \/ SpecialNotify(r, out)

SpecValues == InitStore /\ [][NextValues]_vars

\* The notifications of a student.  The teacher of class 1 is signed in
\* (session 1) and so is the student's user (session 2); the student is
\* enrolled in class 1 or in no class.
InitRead ==
  /\ users = StoreUsers
  /\ sessions = [s \in Sid |->
       [present |-> TRUE, user |-> SessionUser(StoreUsers[IF s = 1 THEN 2 ELSE 3])]]
  /\ nextSid = MaxSid + 1
  /\ loginAttempts = [k \in LoginKey |-> NoEntry]
  /\ now = 0
  /\ reqs = [r \in Req |-> Idle]
  /\ response = NoResponse
  /\ lockout = [k \in LoginKey |-> NoWindow]
  /\ sinceSuccess = [k \in LoginKey |-> -1]
  /\ loggedOut = {}
  /\ isFakeDb \in BOOLEAN
  /\ INITIAL_PASSWORD = PwInit
  /\ report = NoReport
  /\ classes = {[id |-> 1, teacher_id |-> 2]}
  /\ grade_templates = {[id |-> 1, class_id |-> 1]}
  /\ special_assessments = {}
  /\ files = {}
  /\ nextFile = 1
  /\ \E enrolled \in BOOLEAN :
       IF enrolled
       THEN /\ students = {[id |-> 1, class_id |-> 1, email |-> "s@x"]}
            /\ grades = {SeedGrade}
            /\ grade_notifications = {[id |-> 1, student_id |-> 1, read_at |-> 0]}
            /\ serial = [grades |-> 2, special_assessments |-> 1,
                         grade_notifications |-> 2]
       ELSE /\ students = {}
            /\ grades = {}
            /\ grade_notifications = {}
            /\ serial = [grades |-> 1, special_assessments |-> 1,
                         grade_notifications |-> 1]

InputsRead ==
  {[BlankInput EXCEPT !.method = "POST",
                      !.path = <<"student", "notifications", id, "read">>,
                      !.cookie = 2, !.csrfOk = TRUE] :
     id \in {"1", "2", "0", "abc", "Infinity"}}
    \cup {[SpecialBody("1", "1", "Praesentation", "", "50", "3") EXCEPT
             !.cookie = 1, !.csrfOk = TRUE]}

NextRead ==
  \/ \E r \in Uploader, in \in InputsRead : PostRoute(r, in)
  \/ \E r \in Uploader, out \in InsertOutcome :
       \/ MarkReadProfile(r, out)
       \/ MarkReadClass(r, out)
       \/ MarkReadUpdate(r, out)
       \/ PostSpecialAssessment(r, out)
       \/ SpecialNotify(r, out)
  \/ Tick

SpecRead == InitRead /\ [][NextRead]_vars

\* Failures of the store: the teacher is signed in (session 1); logins and
\* requests to the teacher's routes meet every kind of failure
StoreOutcome == {"ok", "other"} \cup ConnectionErrors

InputsErrors ==
  {[BlankInput EXCEPT !.method = "POST", !.path = PathLogin, !.cookie = c,
                      !.csrfOk = TRUE, !.email = "t@x", !.password = pw] :
     c \in {0, 1}, pw \in {PwGood, PwShort}}
    \cup {[BlankInput EXCEPT !.method = "POST", !.path = p, !.cookie = 1,
                             !.csrfOk = TRUE] :
            p \in {<<"teacher", "delete-class", "1">>,
                   <<"teacher", "delete-student", "1", "1">>,
                   <<"teacher", "delete-template", "1", "1">>}}

NextErrors ==
  \/ \E r \in Uploader, in \in InputsErrors :
       \/ PostLogin(r, in)
       \/ PostRoute(r, in)
  \/ \E r \in Uploader, out \in StoreOutcome :
       \/ LoginDbResult(r, out)
       \/ DeleteClassStudents(r, out)
       \/ DeleteClassRow(r, out)
       \/ DeleteStudentRow(r, out)
       \/ DeleteTemplate(r, out)
  \/ \E r \in Uploader : LoginRegenerated(r) \/ LoginSaved(r)

SpecErrors == InitUpload /\ [][NextErrors]_vars

\* The averages of pages of grades: the rows loadStudentGrades can hand
\* over, with numbers (createFakeDb) or strings (PostgreSQL) in the columns
\* grade and weight
GradeRows ==
  [grade : {Num(150), Num(300), Str("3"), Str("abc")},
   weight : {Null, Num(0), Num(4000), Num(6000), Str("0"), Str("60")},
   class_subject : {"Math", "Bio"},
   name : {"Test"}]

GradeRowLists == UNION {[1..n -> GradeRows] : n \in 0..MaxRows}

InitAverages ==
  /\ users = UsersInit("active")
  /\ sessions = [s \in Sid |-> NoSession]
  /\ nextSid = 1
  /\ loginAttempts = [k \in LoginKey |-> NoEntry]
  /\ now = 0
  /\ reqs = [r \in Req |-> Idle]
  /\ response = NoResponse
  /\ lockout = [k \in LoginKey |-> NoWindow]
  /\ sinceSuccess = [k \in LoginKey |-> -1]
  /\ loggedOut = {}
  /\ isFakeDb \in BOOLEAN
  /\ INITIAL_PASSWORD = PwInit
  /\ report \in {[NoReport EXCEPT !.rows = rows] : rows \in GradeRowLists}
  /\ InitTables

NextAverages ==
  \/ StudentDashboard([subject |-> "Math"])
  \/ TeacherStudentGrades

SpecAverages == InitAverages /\ [][NextAverages]_vars


\* The fields of the CSV export: every string of up to MaxField characters
\* of CsvChars
CsvChars == {"=", "+", "-", "@", "\t", "\r", ",", "\"", "\n", "'", "a"}

CsvFields == UNION {[1..n -> CsvChars] : n \in 0..MaxField}

InitCsv ==
  /\ users = UsersInit("active")
  /\ sessions = [s \in Sid |-> NoSession]
  /\ nextSid = 1
  /\ loginAttempts = [k \in LoginKey |-> NoEntry]
  /\ now = 0
  /\ reqs = [r \in Req |-> Idle]
  /\ response = NoResponse
  /\ lockout = [k \in LoginKey |-> NoWindow]
  /\ sinceSuccess = [k \in LoginKey |-> -1]
  /\ loggedOut = {}
  /\ isFakeDb = FALSE
  /\ INITIAL_PASSWORD = PwInit
  /\ report \in {[NoReport EXCEPT !.rows = <<field>>] : field \in CsvFields}
  /\ InitTables

NextCsv == GradesCsv

SpecCsv == InitCsv /\ [][NextCsv]_vars

\* The lines of the PDF export: up to MaxLines lines of up to MaxPieces
\* pieces; LongRun makes the content longer than 99 characters
LongRun == "aaaaaaaaaaaaaaaaaaaaaaaaaaaaaaaaaaaaaaaaaaaaaaaaaaaaaaaaaaaaaaaaaaaaaaaa"

PdfPieces == {"a", "(", ")", "\\", "\n", "<ae>", "<emoji>", LongRun}

PdfLines == UNION {[1..n -> PdfPieces] : n \in 0..MaxPieces}

InitPdf ==
  /\ users = UsersInit("active")
  /\ sessions = [s \in Sid |-> NoSession]
  /\ nextSid = 1
  /\ loginAttempts = [k \in LoginKey |-> NoEntry]
  /\ now = 0
  /\ reqs = [r \in Req |-> Idle]
  /\ response = NoResponse
  /\ lockout = [k \in LoginKey |-> NoWindow]
  /\ sinceSuccess = [k \in LoginKey |-> -1]
  /\ loggedOut = {}
  /\ isFakeDb = FALSE
  /\ INITIAL_PASSWORD = PwInit
  /\ report \in {[NoReport EXCEPT !.rows = lines] :
                   lines \in UNION {[1..n -> PdfLines] : n \in 0..MaxLines}}
  /\ InitTables

NextPdf == GradesPdf

SpecPdf == InitPdf /\ [][NextPdf]_vars

\* the account status: the admin (session 1) and the student (session 2) are
\* logged in; the admin locks, unlocks and deletes the student's account
\* while the student asks for pages
StatusUsers == [UsersInit("active") EXCEPT ![1].password_hash = hashPassword(PwGood)]

InitStatus ==
  /\ users = StatusUsers
  /\ sessions = [s \in Sid |->
       [present |-> TRUE, user |-> SessionUser(StatusUsers[IF s = 1 THEN 1 ELSE 3])]]
  /\ nextSid = MaxSid + 1
  /\ loginAttempts = [k \in LoginKey |-> NoEntry]
  /\ now = 0
  /\ reqs = [r \in Req |-> Idle]
  /\ response = NoResponse
  /\ lockout = [k \in LoginKey |-> NoWindow]
  /\ sinceSuccess = [k \in LoginKey |-> -1]
  /\ loggedOut = {}
  /\ isFakeDb \in BOOLEAN
  /\ INITIAL_PASSWORD = PwInit
  /\ report = NoReport
  /\ InitTables

InputsStatus ==
  {[BlankInput EXCEPT !.method = "GET", !.path = p, !.cookie = c] :
     p \in {PathRoot, <<"student">>, <<"admin">>}, c \in 1..MaxSid}
    \cup {[BlankInput EXCEPT !.method = "POST", !.cookie = c, !.csrfOk = k,
                             !.path = <<"admin", "users", "3", "delete">>] :
            c \in 1..MaxSid, k \in BOOLEAN}
    \cup {[BlankInput EXCEPT !.method = "POST", !.cookie = 1, !.csrfOk = TRUE,
                             !.path = <<"admin", "users", "3">>,
                             !.email = "s@x", !.role = "student", !.status = st] :
            st \in {"", "active", "locked"}}

NextStatus ==
  \/ \E r \in Req, in \in InputsStatus :
       \/ ArriveRejected(r, in)
       \/ RouterRejected(r, in)
       \/ ServePage(r, in)
       \/ AdminDeleteUser(r, in)
       \/ AdminUpdateUser(r, in)
  \/ \E r \in Req, out \in DbOutcome :
       \/ AdminDeleteDbResult(r, out)
       \/ AdminUpdateDbResult(r, out)

SpecStatus == InitStatus /\ [][NextStatus]_vars

\* the passwords: the admin (session 1) resets the student's password, and
\* the teacher (session 2), who must change the initial password, does so;
\* INITIAL_PASSWORD is not configured, acceptable or too short
InitPasswords ==
  /\ users = StatusUsers
  /\ sessions = [s \in Sid |->
       [present |-> TRUE, user |-> SessionUser(StatusUsers[s])]]
  /\ nextSid = MaxSid + 1
  /\ loginAttempts = [k \in LoginKey |-> NoEntry]
  /\ now = 0
  /\ reqs = [r \in Req |-> Idle]
  /\ response = NoResponse
  /\ lockout = [k \in LoginKey |-> NoWindow]
  /\ sinceSuccess = [k \in LoginKey |-> -1]
  /\ loggedOut = {}
  /\ isFakeDb \in BOOLEAN
  /\ INITIAL_PASSWORD \in {Undefined, PwInit, PwShort}
  /\ report = NoReport
  /\ InitTables

InputsPasswords ==
  {[BlankInput EXCEPT !.method = "POST", !.cookie = 1, !.csrfOk = k,
                      !.path = <<"admin", "users", "3", "reset">>,
                      !.password = pw, !.useInitial = i] :
     pw \in {Undefined, PwShort, PwLetters, PwGood}, i \in {"", "1"}, k \in BOOLEAN}
    \cup {[BlankInput EXCEPT !.method = "POST", !.path = PathForce, !.cookie = 2,
                             !.csrfOk = TRUE, !.newPassword = pw] :
            pw \in {Undefined, PwShort, PwNumbers, PwGood}}

NextPasswords ==
  \/ \E r \in Req, in \in InputsPasswords :
       \/ ArriveRejected(r, in)
       \/ AdminResetPassword(r, in)
       \/ PostForcePw(r, in)
  \/ \E r \in Req, out \in DbOutcome :
       \/ AdminResetDbResult(r, out)
       \/ ForcePwDbResult(r, out)

SpecPasswords == InitPasswords /\ [][NextPasswords]_vars

\* The grades of a refresh of the student dashboard: values 1 and 2, weights
\* 0 (read as 1), 1, 2 and 5, two subjects
ClientGrades ==
  [value : {Num(100), Num(200)},
   weight : {Num(0), Num(100), Num(200), Num(500)},
   subject : {"Math", "Bio"}]

InitClient ==
  /\ users = UsersInit("active")
  /\ sessions = [s \in Sid |-> NoSession]
  /\ nextSid = 1
  /\ loginAttempts = [k \in LoginKey |-> NoEntry]
  /\ now = 0
  /\ reqs = [r \in Req |-> Idle]
  /\ response = NoResponse
  /\ lockout = [k \in LoginKey |-> NoWindow]
  /\ sinceSuccess = [k \in LoginKey |-> -1]
  /\ loggedOut = {}
  /\ isFakeDb = FALSE
  /\ INITIAL_PASSWORD = PwInit
  /\ report \in {[NoReport EXCEPT !.rows = gradeList] :
                   gradeList \in UNION {[1..n -> ClientGrades] : n \in 0..MaxClientRows}}
  /\ InitTables

NextClient == RefreshGrades

SpecClient == InitClient /\ [][NextClient]_vars

\* ================================================================== claims
isLoginResponse(resp) == resp.method = "POST" /\ resp.handler = "/login"

\* C1: once LOGIN_RATE_MAX failures have been recorded for a key within one
\* rate window, a POST /login for the key that arrives before the lockout
\* ends (LOGIN_RATE_WINDOW_MS after the last such failure, or a successful
\* login) is answered 429 with the rate-limit message, and its session is
\* left as it was.
C1_LockedOutLoginRejected ==
  (isLoginResponse(response) /\ response.locked) =>
     /\ response.status = 429
     /\ response.msg = MsgRateLimited
     /\ response.after = response.before

\* C2: while fewer than LOGIN_RATE_MAX failures have been recorded for a key
\* since its last successful login, the key is not rate limited, whatever
\* was recorded before that login.
C2_SuccessResetsFailures ==
  \A k \in LoginKey :
    sinceSuccess[k] \in 0..(LOGIN_RATE_MAX - 1) =>
      ~isLoginRateLimited(loginAttempts, k, now)

C2_Witness ==
  /\ sinceSuccess["a@x"] = LOGIN_RATE_MAX - 1
  /\ loginAttempts["a@x"].count = LOGIN_RATE_MAX - 1
  /\ isLoginResponse(response) /\ response.status = 401

\* the cases of C3, stated on a login that waits for db.get
hasAccount(in) ==
  \E u \in UserId :
    /\ users[u].email = in.email
    /\ isString(in.password) /\ users[u].password_hash.pw = in.password

inactiveWithRightPassword(in) ==
  \E u \in UserId :
    /\ users[u].email = in.email
    /\ isString(in.password) /\ users[u].password_hash.pw = in.password
    /\ users[u].status \in {"locked", "deleted"}

\* C3: when db.get answers, a login to a locked or deleted account with the
\* right password and a login with a wrong password or an unknown e-mail
\* address get the same response (401, "Login fehlgeschlagen."), record a
\* failure for their key with recordLoginFailure, and leave the session
\* store as it was.
C3_InactiveLikeBadCredentials ==
  [][\A r \in Req :
       ( /\ reqs[r].pc = "login_db"
         /\ reqs'[r] # reqs[r]
         /\ response'.status # 500
         /\ inactiveWithRightPassword(reqs[r].in) \/ ~hasAccount(reqs[r].in) )
       => /\ reqs'[r].pc = "idle"
          /\ response'.status = 401
          /\ response'.msg = MsgLoginFailed
          /\ loginAttempts' = recordLoginFailure(loginAttempts,
                                buildLoginKey(reqs[r].in.email), now)
          /\ sessions' = sessions
          /\ response'.after = response'.before]_vars

C3_Witness ==
  /\ users[3].status \in {"locked", "deleted"}
  /\ loginAttempts["s@x"].count >= 1
  /\ loginAttempts["a@x"].count >= 1
  /\ isLoginResponse(response) /\ response.status = 401

\* the request was answered by neither the multipart check nor the CSRF check
passedCsrf(resp) ==
  /\ resp.status # 415
  /\ resp.msg # errorMessage("EBADCSRFTOKEN")

exemptPath(path) == path \in {PathForce, PathLogout}

passesPolicy(pw) ==
  /\ isString(pw)
  /\ Len(pw) >= MIN_PASSWORD_LENGTH
  /\ \E i \in 1..Len(pw) : pw[i] \in Letters
  /\ \E i \in 1..Len(pw) : pw[i] \in Numbers

\* C5: a stored session's flag goes from set to cleared only in the step in
\* which POST /force-password-change, with a password that passes the
\* policy, gets the store's answer that the row was updated; the response
\* is a redirect to the role's home and the gate lets the session pass. A
\* password that fails the policy never reaches the store, and a 400
\* response leaves every users row and every session's flag as it was.
C5_FlagClearedOnlyByPasswordChange ==
  /\ [](\A r \in Req :
          reqs[r].pc = "fpc_db" => passesPolicy(reqs[r].in.newPassword))
  /\ [][
       /\ \A s \in Sid :
            ( /\ sessions[s].present /\ sessions'[s].present
              /\ sessions[s].user.must_change_password
              /\ ~sessions'[s].user.must_change_password )
            => \E r \in Req :
                 /\ reqs[r].pc = "fpc_db" /\ reqs[r].sid = s
                 /\ reqs'[r].pc = "idle"
                 /\ passesPolicy(reqs[r].in.newPassword)
                 /\ users'[reqs[r].user.id].password_hash
                      = hashPassword(reqs[r].in.newPassword)
                 /\ ~users'[reqs[r].user.id].must_change_password
                 /\ response'.status = 302
                 /\ response'.loc = getRedirectForRole(reqs[r].user.role)
                 /\ response'.loc \in {"/admin", "/teacher/classes", "/student"}
                 /\ Front([BlankInput EXCEPT !.path = <<"teacher", "classes">>],
                          sessions'[s].user) = "pass"
       /\ (response'.status = 400 /\ response'.handler = "/force-password-change")
            => /\ users' = users
               /\ \A t \in Sid :
                    (sessions[t].present /\ sessions'[t].present) =>
                      sessions'[t].user.must_change_password
                        = sessions[t].user.must_change_password
     ]_vars

C5_Witness ==
  /\ response.handler = "/force-password-change"
  /\ response.status = 302 /\ response.loc = "/teacher/classes"
  /\ response.before.must_change_password
  /\ ~response.after.must_change_password
  /\ users[2].password_hash = hashPassword(PwGood)
  /\ \E s \in Sid : sessions[s].present /\ sessions[s].user.id = 2
                    /\ ~sessions[s].user.must_change_password


loginInFlight(q) == q.pc \in {"login_db", "login_regen", "login_save"}

\* C6: a login request never writes a user payload under the session
\* identifier it arrived with; when it attaches the payload its session has
\* a new identifier; and in the step that sends its redirect the store holds
\* the payload under that new identifier.
C6_RegenerateBeforePayload ==
  /\ [](\A r \in Req :
          reqs[r].pc = "login_save" =>
            /\ reqs[r].sid # reqs[r].in.cookie
            /\ reqs[r].user = reqs[r].row)
  /\ [][\A r \in Req :
          (loginInFlight(reqs[r]) /\ reqs'[r] # reqs[r]) =>
            /\ \/ sessions'[reqs[r].in.cookie] = sessions[reqs[r].in.cookie]
               \/ ~sessions'[reqs[r].in.cookie].present
            /\ (reqs'[r].pc = "idle" /\ response'.status = 302) =>
                 /\ reqs[r].pc = "login_save"
                 /\ reqs[r].sid # reqs[r].in.cookie
                 /\ sessions'[reqs[r].sid] =
                      [present |-> TRUE, user |-> reqs[r].row]
     ]_vars

C6_Witness ==
  /\ isLoginResponse(response)
  /\ response.status = 302 /\ response.loc = "/admin"
  /\ response.before = NoUser /\ response.after.role = "admin"
  /\ \E s \in Sid : sessions[s].present /\ sessions[s].user.role = "admin"

\* the request was answered by none of the multipart check, the CSRF check
\* and the must-change-password gate: it reached its router
reachedRouter(resp) ==
  /\ isRouterPath(resp.path)
  /\ passedCsrf(resp)
  /\ ~resp.before.must_change_password

userOfCookie(s) == IF sessions[s].present THEN sessions[s].user ELSE NoUser

\* C8: once POST /logout of a session has completed, a request that presents
\* the session's identifier is anonymous: requireAuth redirects it to /login.
C8_LogoutDestroysSession ==
  \A s \in loggedOut : requireAuth(userOfCookie(s)) = "login"


succeeded(resp) == resp.status = 302 /\ resp.loc = "/teacher/student-grades"

\* C9: when a request to add a grade whose file multer has written is
\* answered with anything but the redirect that ends a successful request,
\* the file is no longer in the attachment directory (unlink itself is taken
\* to succeed); and every file in the directory belongs to a request still
\* being processed or is the attachment of a grade row.
C9_UploadRemovedOnFailure ==
  /\ [](\A f \in files :
          \/ \E r \in Req : reqs[r].pc # "idle" /\ reqs[r].file = f
          \/ \E g \in grades : g.attachment_path = f)
  /\ [][\A r \in Req :
          ( /\ reqs[r].file # 0
            /\ reqs[r].pc # "idle" /\ reqs'[r].pc = "idle"
            /\ ~succeeded(response') )
          => reqs[r].file \notin files'
     ]_vars

C9_Witness ==
  /\ response.status = 500
  /\ response.multipart
  /\ nextFile = 3
  /\ files = {1}
  /\ \E g \in grades : g.attachment_path = 1

\* the allow-list of the multipart check, as the claim states it
matchesAddGrade(path) ==
  /\ Len(path) = 4
  /\ path[1] = "teacher" /\ path[2] = "add-grade"
  /\ path[3] \in {"1", "2", "3"} /\ path[4] \in {"1", "2", "3"}

addGradeStage(q) ==
  q.pc \in {"upload_failed", "grade_load", "grade_template", "grade_insert",
            "grade_notify"}

\* C10: a non-GET multipart request to a path other than
\* /teacher/add-grade/<digits>/<digits> is answered 415 and no handler runs
\* for it; on that route the CSRF check runs once multer has parsed the
\* body: only a request with a valid token gets past it, and the step that
\* refuses one answers 403 and inserts no grade and no notification.
C10_MultipartAllowList ==
  /\ []( /\ (response.multipart /\ response.method # "GET"
               /\ ~matchesAddGrade(response.path)) =>
                 response.status = 415 /\ response.handler = ""
         /\ \A r \in Req :
              /\ (reqs[r].pc # "idle" /\ reqs[r].in.multipart
                    /\ reqs[r].in.method # "GET") => matchesAddGrade(reqs[r].in.path)
              /\ addGradeStage(reqs[r]) => reqs[r].in.csrfOk )
  /\ [][\A r \in Req :
          (reqs[r].pc = "upload_cb" /\ ~reqs[r].in.csrfOk /\ reqs'[r] # reqs[r])
          => /\ reqs'[r].pc = "idle"
             /\ response'.status = 403
             /\ response'.msg = errorMessage("EBADCSRFTOKEN")
             /\ grades' = grades
             /\ grade_notifications' = grade_notifications
     ]_vars

C10_Witness ==
  /\ response.multipart /\ response.method = "POST"
  /\ response.path = <<"teacher", "add-grade", "1", "1">>
  /\ response.status = 403
  /\ nextFile > 1
  /\ files = {}
  /\ grades = {}


\* C11: a submission to add-grade for a (student, template) pair that
\* already has a grade, once the store has answered its INSERT (the
\* connection has not failed), is answered with 409 and adds neither a grade
\* row nor a notification.
C11_DuplicateAnswered409 ==
  [][\A r \in Req :
       (/\ reqs[r].pc = "grade_insert"
        /\ isDuplicate(gradeRow(reqs[r]))
        /\ reqs'[r].pc # "grade_insert"
        /\ response'.status # 503)
         => /\ reqs'[r].pc = "idle"
            /\ response'.status = 409
            /\ grades' = grades
            /\ grade_notifications' = grade_notifications
    ]_vars


\* C12: when a request to delete a class (the teacher's route, posted by
\* the owner of the class, or the administrator's) has been answered, with
\* the connection to the store intact, it has been answered with the
\* redirect, and no student, grade template, grade or special assessment of
\* the class is left.
classOf(resp) == paramId(resp.path[3])

deletedClass(resp) ==
  /\ resp.method = "POST"
  /\ routeOf(resp.path) \in {"delete-class", "admin-delete-class"}
  /\ resp.status \notin {403, 503}
  /\ resp.loc \notin {"/login", "/force-password-change"}
  /\ routeOf(resp.path) = "delete-class" => resp.before.id = 2 /\ classOf(resp) = 1

C12_ClassDeleteCascades ==
  [][(response' # response /\ deletedClass(response'))
       => /\ response'.status = 302
          /\ \A st \in students' : st.class_id # classOf(response')
          /\ \A t \in grade_templates' : t.class_id # classOf(response')
          /\ \A g \in grades' : g.class_id # classOf(response')
          /\ \A a \in special_assessments' : a.class_id # classOf(response')
    ]_vars


\* C13: when a request to remove student 1 from class 1 (the teacher's
\* route, posted by the owner of the class, or the administrator's) has been
\* answered, with the connection to the store intact, it has been answered
\* with the redirect, and no grade, special assessment or notification of
\* the student is left.
removedStudent(resp) ==
  /\ resp.method = "POST"
  /\ resp.status \notin {403, 503}
  /\ resp.loc \notin {"/login", "/force-password-change"}
  /\ \/ resp.path = <<"teacher", "delete-student", "1", "1">> /\ resp.before.id = 2
     \/ resp.path = <<"admin", "classes", "1", "students", "1", "delete">>

C13_StudentDeleteCascades ==
  [][(response' # response /\ removedStudent(response'))
       => /\ response'.status = 302
          /\ \A g \in grades' : g.student_id # 1
          /\ \A a \in special_assessments' : a.student_id # 1
          /\ \A n \in grade_notifications' : n.student_id # 1
    ]_vars


\* C14: when a teacher's request on a route that carries a class id has been
\* answered, with the connection to the store intact, and no class with that
\* id belongs to the teacher, it has been answered with 404, and the
\* answering step changed no row of the store and removed no stored file.
teacherClassRoutes ==
  {"delete-class", "delete-student", "delete-grade", "delete-grade-attachment",
   "delete-template", "delete-special-assessment", "special-assessments"}

notOwnClass(resp) ==
  /\ resp.method = "POST"
  /\ routeOf(resp.path) \in teacherClassRoutes
  /\ resp.before.role = "teacher"
  /\ resp.status \notin {403, 503}
  /\ resp.loc \notin {"/login", "/force-password-change"}
  /\ ~\E c \in classes : c.id = classOf(resp) /\ c.teacher_id = resp.before.id

C14_ForeignClassAnswered404 ==
  [][(response' # response /\ notOwnClass(response'))
       => /\ response'.status = 404
          /\ Tables' = Tables
          /\ files' = files
    ]_vars


\* C15: no grade row has both an attachment and an external link; and while
\* a request to add a grade that carries both a stored file and a link is
\* being handled no grade row and no notification is added, and, with the
\* connection to the store intact, the request is answered with 400.
carriesBoth(q) ==
  /\ q.pc # "idle"
  /\ isAddGradePath(q.in.path)
  /\ q.file # 0
  /\ normalizeExternalLink(q.in.external_link).value # ""

C15_NeverFileAndLink ==
  /\ [](\A g \in grades : ~(g.attachment_path # 0 /\ g.external_link # ""))
  /\ [][\A r \in Uploader :
          carriesBoth(reqs[r])
            => /\ grades' = grades
               /\ grade_notifications' = grade_notifications
               /\ (reqs'[r].pc = "idle" /\ response'.status # 503)
                    => response'.status = 400
      ]_vars

\* a request with a file and a link has been refused, and a grade with an
\* attachment is in the store
C15_Witness ==
  /\ response.status = 400
  /\ response.msg =
       "Bitte entweder eine Datei hochladen oder einen Link angeben, nicht beides."
  /\ \E g \in grades : g.attachment_path # 0


\* C16: every stored grade and special assessment has a value between 1 and
\* 5; and while a submission of the add-grade or special-assessment form by
\* the owner of the class, for a student of the class, whose value is not a
\* number between 1 and 5 is being handled, no grade, special assessment or
\* notification is stored, and, with the connection to the store intact, the
\* submission is answered with 400.
isGradeValue(x) == x.kind = "finite" /\ 1 <= x.v /\ x.v <= 5

valueOutOfRange(q) ==
  /\ q.pc # "idle"
  /\ isAddGradePath(q.in.path) \/ routeOf(q.in.path) = "special-assessments"
  /\ \E c \in classes : c.id = paramId(q.in.path[3]) /\ c.teacher_id = q.user.id
  /\ isAddGradePath(q.in.path) => studentInClass(q.in.path[3], q.in.path[4])
  /\ ~isGradeValue(Number(q.in.grade))

C16_ValuesInRange ==
  /\ [](/\ \A g \in grades : isGradeValue(g.grade)
        /\ \A a \in special_assessments : isGradeValue(a.grade))
  /\ [][\A r \in Uploader :
          valueOutOfRange(reqs[r])
            => /\ grades' = grades
               /\ special_assessments' = special_assessments
               /\ grade_notifications' = grade_notifications
               /\ (reqs'[r].pc = "idle" /\ response'.status # 503)
                    => response'.status = 400
      ]_vars

\* a value out of range has been refused by each of the two forms' checks,
\* here the special assessment's, with a grade and a special assessment stored
C16_Witness ==
  /\ response.status = 400
  /\ response.msg = "Note muss zwischen 1 und 5 liegen."
  /\ response.handler = "special-assessments"
  /\ grades # {}
  /\ special_assessments # {}


\* C17: the read_at of a notification that has been read stays as it is: no
\* step changes it, and so no later request to mark the notification read
\* does, and it does not return to null (0).
C17_ReadAtSetOnce ==
  [][\A n \in grade_notifications :
       n.read_at # 0
         => \A m \in grade_notifications' : m.id = n.id => m.read_at = n.read_at
    ]_vars


\* C18: a step of a request in which the store fails with a connection
\* error (ECONNRESET, ETIMEDOUT, ENETUNREACH, ECONNREFUSED, or a terminated
\* connection) answers the request with 503 and the retry message, in POST
\* /login as in the teacher's routes; a step in which the store fails
\* otherwise answers with 500.
storeStep(r, err) ==
  \/ LoginDbResult(r, err)
  \/ DeleteClassStudents(r, err)
  \/ DeleteClassRow(r, err)
  \/ DeleteStudentRow(r, err)
  \/ DeleteTemplate(r, err)

C18_StoreFailureAnswered ==
  [][\A r \in Uploader :
       /\ \A err \in ConnectionErrors :
            storeStep(r, err)
              => /\ response'.status = 503
                 /\ response'.msg =
                      "Datenbank nicht erreichbar. Bitte spaeter erneut versuchen."
       /\ storeStep(r, "other") => response'.status = 500
    ]_vars


\* C19: when a page has averaged rows that are none, or that all have
\* weight 0, the overall average and every subject's average are null.
allWeightZero(rows) ==
  \A i \in 1..Len(rows) : rows[i].weight \in {Num(0), Str("0")}

C19_NullWithoutWeights ==
  (report.view # "" /\ allWeightZero(report.rows))
    => /\ report.overall = Null
       /\ \A subject \in DOMAIN report.subjects : report.subjects[subject] = Null


\* C20: when the student's page has averaged rows whose value and weight are
\* numbers, the overall average is the sum of value * weight over the sum of
\* weight of all rows, and the average of each subject is that quotient over
\* the rows of the subject, each to the nearest hundredth (where the sum of
\* weight is not 0).
isNumeric(x) == x.t \in {"number", "string"} /\ toNumber(x).t = "number"

RECURSIVE sumOfProducts(_, _)
sumOfProducts(rows, indices) ==
  IF indices = {} THEN 0
  ELSE LET i == CHOOSE k \in indices : TRUE
       IN  toNumber(rows[i].grade).h * toNumber(rows[i].weight).h
             + sumOfProducts(rows, indices \ {i})

RECURSIVE sumOfWeights(_, _)
sumOfWeights(rows, indices) ==
  IF indices = {} THEN 0
  ELSE LET i == CHOOSE k \in indices : TRUE
       IN  toNumber(rows[i].weight).h + sumOfWeights(rows, indices \ {i})

\* average is the quotient of the sums over the rows at the indices, to the
\* nearest hundredth
isWeightedMean(average, rows, indices) ==
  LET products == sumOfProducts(rows, indices)
      weights == sumOfWeights(rows, indices)
      distance == average.h * weights - products
  IN  /\ average.t = "number"
      /\ 2 * distance <= weights
      /\ -2 * distance <= weights

C20_WeightedMean ==
  LET rows == report.rows
      all == 1..Len(rows)
      of(subject) == {i \in all : rows[i].class_subject = subject}
  IN  (/\ report.view = "student"
       /\ \A i \in all : isNumeric(rows[i].grade) /\ isNumeric(rows[i].weight))
        => /\ sumOfWeights(rows, all) # 0
                => isWeightedMean(report.overall, rows, all)
           /\ \A i \in all :
                sumOfWeights(rows, of(rows[i].class_subject)) # 0
                  => /\ rows[i].class_subject \in DOMAIN report.subjects
                     /\ isWeightedMean(report.subjects[rows[i].class_subject],
                                        rows, of(rows[i].class_subject))


\* C21: every field of the CSV export is emitted as follows: a field whose
\* first character is =, +, -, @, tab or CR gets one single quote in front;
\* then, if it contains a comma, a double quote or a newline, it is wrapped
\* in double quotes with every double quote in it doubled; otherwise it is
\* left as it is.
startsFormula(field) ==
  field # <<>> /\ field[1] \in {"=", "+", "-", "@", "\t", "\r"}

needsQuotes(field) == \E i \in 1..Len(field) : field[i] \in {",", "\"", "\n"}

\* out is text with every double quote doubled
isDoubled(out, text) ==
  LET quotesBefore(i) == Cardinality({j \in 1..(i - 1) : text[j] = "\""})
  IN  /\ Len(out) = Len(text) + quotesBefore(Len(text) + 1)
      /\ \A i \in 1..Len(text) :
           /\ out[i + quotesBefore(i)] = text[i]
           /\ text[i] = "\"" => out[i + quotesBefore(i) + 1] = "\""

isEscaped(out, field) ==
  LET prefixed == IF startsFormula(field) THEN <<"'">> \o field ELSE field
  IN  IF needsQuotes(prefixed)
      THEN /\ Len(out) >= 2
           /\ Head(out) = "\"" /\ out[Len(out)] = "\""
           /\ isDoubled(SubSeq(out, 2, Len(out) - 1), prefixed)
      ELSE out = prefixed

C21_CsvFieldsEscaped ==
  report.view = "csv"
    => /\ Len(report.body) = Len(report.rows)
       /\ \A i \in 1..Len(report.rows) : isEscaped(report.body[i], report.rows[i])

\* a field that starts with = and contains a double quote has been exported
C21_Witness ==
  /\ report.view = "csv"
  /\ report.rows = << <<"=", "\"">> >>
  /\ report.body = << <<"\"", "'", "=", "\"", "\"", "\"">> >>


\* C22: in the PDF export of any lines, the i-th entry of the
\* cross-reference table is the byte offset at which object i starts,
\* startxref is the byte offset of the xref keyword, and the declared
\* /Length is the byte length of the content stream.
RECURSIVE bytesBefore(_, _)
bytesBefore(document, i) ==
  IF i = 1 THEN byteLength(document.header)
  ELSE bytesBefore(document, i - 1) + byteLength(document.objects[i - 1])

C22_PdfOffsets ==
  report.view = "pdf"
    => LET document == report.body
       IN  /\ \A i \in 1..Len(document.objects) :
                document.offsets[i] = bytesBefore(document, i)
           /\ document.xrefOffset = bytesBefore(document, Len(document.objects) + 1)
           /\ document.declaredLength = byteLength(document.content)

\* two long lines with characters outside ASCII have been exported: the
\* content stream is longer than 99 bytes
C22_Witness ==
  /\ report.view = "pdf"
  /\ report.rows = << <<LongRun, "<ae>">>, <<"<emoji>", "(">> >>
  /\ report.body.declaredLength > 99

\* no lines have been exported
C22_WitnessEmpty ==
  /\ report.view = "pdf"
  /\ report.rows = <<>>
  /\ report.body.declaredLength = 31


\* C23: a protected route never serves a session whose account is locked or
\* deleted: once the admin has changed the status of an account, the next
\* request of a session of that account is not served.
accountOf(in) == users[sessions[in.cookie].user.id]

isProtected(path) == path = PathRoot \/ isRouterPath(path)

C23_LockedNeverServed ==
  [][\A r \in Req, in \in InputsStatus :
       (ServePage(r, in) /\ isProtected(in.path) /\ response'.status = 200)
         => accountOf(in).status = "active"]_vars


\* C24: under any interleaving of POST /login requests for one key, no
\* request verifies a password after the failure count of its key has
\* reached LOGIN_RATE_MAX in the open window.
countReachedMax(key) ==
  /\ loginAttempts[key].count >= LOGIN_RATE_MAX
  /\ now - loginAttempts[key].firstAttemptAt <= LOGIN_RATE_WINDOW_MS

verifiesPassword(r) ==
  /\ LoginDbResult(r, "ok")
  /\ userByEmail(reqs[r].in.email).id # 0

C24_NoVerificationAtMax ==
  [][\A r \in Req :
       verifiesPassword(r) => ~countReachedMax(buildLoginKey(reqs[r].in.email))]_vars


\* C25: a lockout that began at the LOGIN_RATE_MAX-th failure of a key ends
\* LOGIN_RATE_WINDOW_MS after that failure: a POST /login for the key that
\* arrives at or after that moment is not answered by the rate limiter.
lockoutOver(key) == lockout[key].until # 0 /\ now >= lockout[key].until

answeredRateLimited(r) == reqs'[r].pc = "idle" /\ response'.status = 429

C25_LockoutEndsAfterWindow ==
  [][\A r \in Req, in \in InputsLogin :
       (PostLogin(r, in) /\ lockoutOver(buildLoginKey(in.email)))
         => ~answeredRateLimited(r)]_vars


\* C26: every grade row whose attachment_path is not null names a file that
\* exists in the attachment directory, after any sequence of add-grade,
\* delete-grade and delete-grade-attachment requests, failing store
\* statements included.
C26_AttachmentsExist ==
  \A g \in grades : g.attachment_path # 0 => g.attachment_path \in files


\* C27: POST /teacher/delete-student/:classId/:studentId for a studentId
\* that is not a student of classId removes no student, no grade and no
\* special assessment, with either store.
namesForeignStudent(q) ==
  /\ q.pc = "delete-student"
  /\ ~\E st \in students :
        st.id = paramId(q.in.path[4]) /\ st.class_id = paramId(q.in.path[3])

C27_ForeignStudentUntouched ==
  [][\A r \in Req, out \in InsertOutcome :
       (DeleteStudentRow(r, out) /\ namesForeignStudent(reqs[r]))
         => /\ students' = students
            /\ grades' = grades
            /\ special_assessments' = special_assessments]_vars


\* C28: every password hash written to the users table (here by the admin's
\* reset and by the forced password change) is the hash of a password that
\* the password policy accepts: at least MIN_PASSWORD_LENGTH characters, a
\* letter and a digit.
isAcceptedPassword(password) ==
  /\ password # Undefined
  /\ Len(password) >= MIN_PASSWORD_LENGTH
  /\ \E i \in 1..Len(password) : password[i] \in Letters
  /\ \E i \in 1..Len(password) : password[i] \in Numbers

C28_HashesOfAcceptedPasswords ==
  [][\A u \in UserId :
       users'[u].password_hash # users[u].password_hash
         => isAcceptedPassword(users'[u].password_hash.pw)]_vars

\* C30: every POST /admin/users/:id/reset ends with a response: no request
\* to the route is left unanswered when its handler has ended, whatever its
\* password and useInitial fields and whether or not INITIAL_PASSWORD is
\* configured.
C30_ResetAnswered ==
  \A r \in Req : isResetPath(reqs[r].in.path) => reqs[r].pc # "unanswered"


\* C29: for every list of grades with a numeric value and weight, the
\* browser's computeAveragesClient gives the per-subject averages and the
\* overall average that the server's computeAverages gives.
C29_ClientAveragesAgree ==
  report.view = "refresh"
    => /\ report.body.subjects = report.subjects
       /\ report.body.overall = report.overall

\* the per-subject averages of the two functions
C29_SubjectAveragesAgree ==
  report.view = "refresh" => report.body.subjects = report.subjects

====
